---- MODULE Spec2Model ----
(***************************************************************************)
(* A model of virtuc: the bytecode compiler and stack VM (src/src/vm.rs),  *)
(* the semantic analyzer (src/src/semantic.rs) and the compile pipeline    *)
(* (src/src/lib.rs).                                                       *)
(*                                                                         *)
(* Indices are 0-based as in the Rust code: instruction i of the Vec<Opcode>*)
(* is code[i + 1] of the TLA+ sequence, and ip, jump targets, entry points *)
(* and return addresses are the usize values of the code.                  *)
(***************************************************************************)
EXTENDS Integers, Sequences, FiniteSets, TLC

(***************************************************************************)
(* Bounds of the model.                                                    *)
(***************************************************************************)
\* Value::Int is an i64; the model keeps two's-complement integers of
\* IntBits bits, so that overflow and MIN / -1 are reachable by small programs.
IntBits == 5
\* The frame stack is a heap Vec bounded only by host memory; the model gives
\* the host room for MaxFrames frames.
MaxFrames == 4
\* The per-activation execution counters (history variables) saturate here.
MaxCount == 20

IntMin == -(2 ^ (IntBits - 1))
IntMax == (2 ^ (IntBits - 1)) - 1

(***************************************************************************)
(* Small helpers.                                                          *)
(***************************************************************************)
Last(s) == s[Len(s)]
Front(s) == SubSeq(s, 1, Len(s) - 1)
Abs(x) == IF x < 0 THEN -x ELSE x
Sign(x) == IF x < 0 THEN -1 ELSE IF x > 0 THEN 1 ELSE 0
Min(a, b) == IF a < b THEN a ELSE b

\* x, once s is evaluated.  TLC evaluates an operator's argument where the
\* operator first reads it; the loops over statements, arguments and functions
\* below evaluate the state one iteration leaves before the next one starts.
Then(s, x) == IF s = s THEN x ELSE x

RECURSIVE Gcd(_, _)
Gcd(a, b) == IF b = 0 THEN a ELSE Gcd(b, a % b)

\* Rust's integer `/`: the quotient truncated toward zero (r # 0).
TruncDiv(l, r) == Sign(l) * Sign(r) * (Abs(l) \div Abs(r))

\* Two's-complement wrapping of x into IntMin..IntMax.
WrapInt(x) == ((x - IntMin) % (2 ^ IntBits)) + IntMin

(***************************************************************************)
(* vm.rs: Value.  Every value is a record [t, n, d]:                       *)
(*   Int(i)   = [t |-> "Int",   n |-> i, d |-> 1]                          *)
(*   Float(f) = [t |-> "Float", n, d]: the rational n/d in lowest terms,   *)
(*              d > 0; d = 0 is a non-finite float: n = 1 is +inf, n = -1  *)
(*              is -inf and n = 0 is NaN.  Rounding and the sign of zero   *)
(*              are not modelled.                                          *)
(*   Void     = [t |-> "Void",  n |-> 0, d |-> 1]                          *)
(***************************************************************************)
IntV(i) == [t |-> "Int", n |-> i, d |-> 1]
Void == [t |-> "Void", n |-> 0, d |-> 1]
NaN == [t |-> "Float", n |-> 0, d |-> 0]
FloatV(num, den) ==
    IF den = 0 THEN [t |-> "Float", n |-> Sign(num), d |-> 0]
    ELSE LET g == Gcd(Abs(num), Abs(den))
             s == Sign(den)
         IN [t |-> "Float", n |-> (s * num) \div g, d |-> (s * den) \div g]

\* A faulty is_truthy, to test the properties against: Void counts as true.
is_truthy_void_true(v) ==
    CASE v.t = "Int" -> v.n # 0
      [] v.t = "Float" -> ~(v.n = 0 /\ v.d # 0)
      [] v.t = "Void" -> TRUE

is_truthy(v) ==
    CASE v.t = "Int" -> v.n # 0
      [] v.t = "Float" -> ~(v.n = 0 /\ v.d # 0)
      [] v.t = "Void" -> FALSE

ArithOps == {"Plus", "Minus", "Multiply", "Divide"}
CmpOps == {"Equal", "NotEqual", "LessThan", "GreaterThan", "LessEqual", "GreaterEqual"}
BinOps == ArithOps \cup CmpOps

BoolInt(b) == IntV(IF b THEN 1 ELSE 0)

\* IEEE comparison of two floats: -1, 0, 1, or 2 when unordered (a NaN).
FloatCmp(a, b) ==
    IF (a.d = 0 /\ a.n = 0) \/ (b.d = 0 /\ b.n = 0) THEN 2
    ELSE IF a.d = 0 /\ b.d = 0 THEN Sign(a.n - b.n)
    ELSE Sign(a.n * b.d - b.n * a.d)

FloatArith(a, op, b) ==
    LET nanA == a.d = 0 /\ a.n = 0
        nanB == b.d = 0 /\ b.n = 0
        infA == a.d = 0 /\ a.n # 0
        infB == b.d = 0 /\ b.n # 0
        negB == [b EXCEPT !.n = -b.n]
        add(x, y) ==
            IF x.d = 0 /\ y.d = 0 THEN (IF x.n = y.n THEN x ELSE NaN)
            ELSE IF x.d = 0 THEN x
            ELSE IF y.d = 0 THEN y
            ELSE FloatV(x.n * y.d + y.n * x.d, x.d * y.d)
    IN IF nanA \/ nanB THEN NaN
       ELSE CASE op = "Plus" -> add(a, b)
              [] op = "Minus" -> add(a, negB)
              [] op = "Multiply" ->
                   IF infA \/ infB
                   THEN (IF a.n = 0 \/ b.n = 0 THEN NaN
                         ELSE FloatV(Sign(a.n) * Sign(b.n), 0))
                   ELSE FloatV(a.n * b.n, a.d * b.d)
              [] op = "Divide" ->
                   IF infA /\ infB THEN NaN
                   ELSE IF infA THEN FloatV(Sign(a.n) * (IF b.n < 0 THEN -1 ELSE 1), 0)
                   ELSE IF infB THEN FloatV(0, 1)
                   ELSE IF b.n = 0 THEN FloatV(Sign(a.n), 0)
                   ELSE FloatV(a.n * b.d, a.d * b.n)

CmpHolds(op, c) ==
    CASE op = "Equal" -> c = 0
      [] op = "NotEqual" -> c # 0
      [] op = "LessThan" -> c = -1
      [] op = "GreaterThan" -> c = 1
      [] op = "LessEqual" -> c \in {-1, 0}
      [] op = "GreaterEqual" -> c \in {0, 1}

\* `l as f64`
IntToFloat(v) == FloatV(v.n, 1)

\* The outcome of an i64 arithmetic operator: the exact result when it fits;
\* on overflow a panic when the build checks overflow (debug profile) and the
\* wrapped result otherwise (release profile); division by zero and
\* MIN / -1 panic in every build.
IntArith(l, op, r, checks) ==
    LET exact == CASE op = "Plus" -> l + r
                   [] op = "Minus" -> l - r
                   [] op = "Multiply" -> l * r
                   [] op = "Divide" -> IF r = 0 THEN 0 ELSE TruncDiv(l, r)
        fits == exact >= IntMin /\ exact <= IntMax
    IN IF op = "Divide" /\ (r = 0 \/ ~fits) THEN [panic |-> TRUE, val |-> Void]
       ELSE IF fits THEN [panic |-> FALSE, val |-> IntV(exact)]
       ELSE IF checks THEN [panic |-> TRUE, val |-> Void]
       ELSE [panic |-> FALSE, val |-> IntV(WrapInt(exact))]

\* VM::eval_binary.  The result is [panic, val]: val is the Value returned,
\* panic says that the Rust operator panicked instead of returning.
eval_binary(left, op, right, checks) ==
    LET floats(a, b) ==
            [panic |-> FALSE,
             val |-> IF op \in ArithOps THEN FloatArith(a, op, b)
                     ELSE BoolInt(CmpHolds(op, FloatCmp(a, b)))]
    IN CASE left.t = "Int" /\ right.t = "Int" ->
              IF op \in ArithOps THEN IntArith(left.n, op, right.n, checks)
              ELSE [panic |-> FALSE, val |-> BoolInt(CmpHolds(op, Sign(left.n - right.n)))]
         [] left.t = "Float" /\ right.t = "Float" -> floats(left, right)
         [] left.t = "Int" /\ right.t = "Float" -> floats(IntToFloat(left), right)
         [] left.t = "Float" /\ right.t = "Int" -> floats(left, IntToFloat(right))
         [] OTHER -> [panic |-> FALSE, val |-> Void]

(***************************************************************************)
(* vm.rs: Opcode.  Every instruction is a record [op, val, name, bop,      *)
(* target, argc]; the fields an opcode does not carry hold a default.      *)
(***************************************************************************)
Instr(op, val, name, bop, target, argc) ==
    [op |-> op, val |-> val, name |-> name, bop |-> bop, target |-> target, argc |-> argc]
LoadConst(v) == Instr("LoadConst", v, "", "", 0, 0)
LoadVar(x) == Instr("LoadVar", Void, x, "", 0, 0)
StoreVar(x) == Instr("StoreVar", Void, x, "", 0, 0)
BinaryOp(o) == Instr("BinaryOp", Void, "", o, 0, 0)
Jump(tgt) == Instr("Jump", Void, "", "", tgt, 0)
JumpIfFalse(tgt) == Instr("JumpIfFalse", Void, "", "", tgt, 0)
CallOp(f, n) == Instr("Call", Void, f, "", 0, n)
ReturnOp == Instr("Return", Void, "", "", 0, 0)
PopOp == Instr("Pop", Void, "", "", 0, 0)
HaltOp == Instr("Halt", Void, "", "", 0, 0)

(***************************************************************************)
(* The AST as vm.rs and semantic.rs match on it.  An absent Option is the  *)
(* record None.                                                            *)
(***************************************************************************)
None == [k |-> "None"]
IsSome(x) == x.k # "None"

Lit(i) == [k |-> "Literal", lit |-> [t |-> "Int", n |-> i, d |-> 1]]
FLit(num, den) == [k |-> "Literal", lit |-> [t |-> "Float", n |-> num, d |-> den]]
Id(x) == [k |-> "Identifier", name |-> x]
Bin(l, o, r) == [k |-> "Binary", left |-> l, bop |-> o, right |-> r]
CallE(f, args) == [k |-> "Call", name |-> f, args |-> args]

Decl(ty, x, init) == [k |-> "Declaration", ty |-> ty, name |-> x, init |-> init]
Assign(x, e) == [k |-> "Assignment", name |-> x, expr |-> e]
Ret(e) == [k |-> "Return", expr |-> e]
Block(ss) == [k |-> "Block", stmts |-> ss]
IfS(c, th, el) == [k |-> "If", cond |-> c, then |-> th, else_ |-> el]
ForS(i, c, u, b) == [k |-> "For", init |-> i, cond |-> c, update |-> u, body |-> b]
ExprS(e) == [k |-> "Expr", expr |-> e]

Param(ty, x) == [ty |-> ty, name |-> x]
Func(rt, f, ps, body) == [return_ty |-> rt, name |-> f, params |-> ps, body |-> body]
Extern(rt, f, pts, va) == [return_ty |-> rt, name |-> f, param_types |-> pts, is_variadic |-> va]
Program(exts, fs) == [extern_functions |-> exts, functions |-> fs]

\* compile_expr: Literal::Int(i) => Value::Int(i), Literal::Float(f) => Value::Float(f)
LitValue(lit) == IF lit.t = "Int" THEN IntV(lit.n) ELSE FloatV(lit.n, lit.d)

(***************************************************************************)
(* vm.rs: Compiler.  The compiler state c is [code, functions, ifs, fors,  *)
(* spans]: code and functions are the fields of struct Compiler; ifs and   *)
(* fors keep, for every compiled If and For, the values of the local index *)
(* variables of compile_stmt (jump_if_false_idx, jump_end_idx, else_start, *)
(* end, loop_start); spans keeps for every compiled function the code      *)
(* length before and after compile_function.  The three are read by the    *)
(* properties only.                                                        *)
(***************************************************************************)
Emit(c, instr) == [c EXCEPT !.code = Append(@, instr)]
Patch(c, idx, instr) == [c EXCEPT !.code[idx + 1] = instr]

RECURSIVE compile_expr(_, _)
RECURSIVE compile_args(_, _)
compile_args(c, args) ==
    IF args = <<>> THEN c
    ELSE LET c1 == compile_expr(c, Head(args))
         IN Then(c1, compile_args(c1, Tail(args)))

compile_expr(c, expr) ==
    CASE expr.k = "Literal" -> Emit(c, LoadConst(LitValue(expr.lit)))
      [] expr.k = "Identifier" -> Emit(c, LoadVar(expr.name))
      [] expr.k = "Binary" ->
           Emit(compile_expr(compile_expr(c, expr.left), expr.right), BinaryOp(expr.bop))
      [] expr.k = "Call" ->
           Emit(compile_args(c, expr.args), CallOp(expr.name, Len(expr.args)))

RECURSIVE compile_stmt(_, _)
RECURSIVE compile_stmts(_, _)
compile_stmts(c, stmts) ==
    IF stmts = <<>> THEN c
    ELSE LET c1 == compile_stmt(c, Head(stmts))
         IN Then(c1, compile_stmts(c1, Tail(stmts)))

compile_if(c, stmt) ==
    LET c1 == compile_expr(c, stmt.cond)
        jump_if_false_idx == Len(c1.code)
        c2 == compile_stmt(Emit(c1, JumpIfFalse(0)), stmt.then)
        jump_end_idx == Len(c2.code)
        c3 == Emit(c2, Jump(0))
        else_start == Len(c3.code)
        c4 == Patch(c3, jump_if_false_idx, JumpIfFalse(else_start))
        c5 == IF IsSome(stmt.else_) THEN compile_stmt(c4, stmt.else_) ELSE c4
        end == Len(c5.code)
        c6 == Patch(c5, jump_end_idx, Jump(end))
    IN [c6 EXCEPT !.ifs = Append(@,
           [cond_start |-> Len(c.code), jif |-> jump_if_false_idx,
            jump_end |-> jump_end_idx, else_start |-> else_start, end |-> end,
            has_else |-> IsSome(stmt.else_)])]

\* A faulty compile_for, to test the properties against: the exit of the loop
\* is patched to the back jump (end - 1) instead of the instruction after it.
compile_for_exit_off_by_one(c, stmt) ==
    LET c1 == IF IsSome(stmt.init) THEN compile_stmt(c, stmt.init) ELSE c
        loop_start == Len(c1.code)
        c2 == IF IsSome(stmt.cond)
              THEN Emit(compile_expr(c1, stmt.cond), JumpIfFalse(0))
              ELSE c1
        jump_end_idx == Len(c2.code) - 1
        c3 == compile_stmt(c2, stmt.body)
        upd_start == Len(c3.code)
        c4 == IF IsSome(stmt.update)
              THEN Emit(compile_expr(c3, stmt.update), PopOp)
              ELSE c3
        back_jump == Len(c4.code)
        c5 == Emit(c4, Jump(loop_start))
        end == Len(c5.code)
        c6 == IF IsSome(stmt.cond) THEN Patch(c5, jump_end_idx, JumpIfFalse(end - 1)) ELSE c5
    IN [c6 EXCEPT !.fors = Append(@,
           [init_start |-> Len(c.code), loop_start |-> loop_start,
            has_cond |-> IsSome(stmt.cond),
            jif |-> IF IsSome(stmt.cond) THEN jump_end_idx ELSE -1,
            body_start |-> Len(c2.code), upd_start |-> upd_start,
            has_update |-> IsSome(stmt.update),
            back_jump |-> back_jump, end |-> end])]

compile_for(c, stmt) ==
    LET c1 == IF IsSome(stmt.init) THEN compile_stmt(c, stmt.init) ELSE c
        loop_start == Len(c1.code)
        c2 == IF IsSome(stmt.cond)
              THEN Emit(compile_expr(c1, stmt.cond), JumpIfFalse(0))
              ELSE c1
        jump_end_idx == Len(c2.code) - 1
        c3 == compile_stmt(c2, stmt.body)
        upd_start == Len(c3.code)
        c4 == IF IsSome(stmt.update)
              THEN Emit(compile_expr(c3, stmt.update), PopOp)
              ELSE c3
        back_jump == Len(c4.code)
        c5 == Emit(c4, Jump(loop_start))
        end == Len(c5.code)
        c6 == IF IsSome(stmt.cond) THEN Patch(c5, jump_end_idx, JumpIfFalse(end)) ELSE c5
    IN [c6 EXCEPT !.fors = Append(@,
           [init_start |-> Len(c.code), loop_start |-> loop_start,
            has_cond |-> IsSome(stmt.cond),
            jif |-> IF IsSome(stmt.cond) THEN jump_end_idx ELSE -1,
            body_start |-> Len(c2.code), upd_start |-> upd_start,
            has_update |-> IsSome(stmt.update),
            back_jump |-> back_jump, end |-> end])]

compile_stmt(c, stmt) ==
    CASE stmt.k = "Declaration" ->
           IF IsSome(stmt.init)
           THEN Emit(compile_expr(c, stmt.init), StoreVar(stmt.name))
           ELSE c
      [] stmt.k = "Assignment" -> Emit(compile_expr(c, stmt.expr), StoreVar(stmt.name))
      [] stmt.k = "Return" ->
           Emit(IF IsSome(stmt.expr) THEN compile_expr(c, stmt.expr)
                ELSE Emit(c, LoadConst(Void)),
                ReturnOp)
      [] stmt.k = "Block" -> compile_stmts(c, stmt.stmts)
      [] stmt.k = "If" -> compile_if(c, stmt)
      [] stmt.k = "For" -> compile_for(c, stmt)
      [] stmt.k = "Expr" -> Emit(compile_expr(c, stmt.expr), PopOp)

\* The prologue: StoreVar for the parameters in reverse order.
RECURSIVE compile_prologue(_, _)
compile_prologue(c, params) ==
    IF params = <<>> THEN c
    ELSE compile_prologue(Emit(c, StoreVar(Last(params).name)), Front(params))

\* `!matches!(self.code.last(), Some(Opcode::Return))`
LastIsReturn(code) == code # <<>> /\ Last(code).op = "Return"

compile_function(c, function) ==
    LET c1 == compile_stmt(compile_prologue(c, function.params), function.body)
    IN IF ~LastIsReturn(c1.code)
       THEN Emit(Emit(c1, LoadConst(IntV(0))), ReturnOp)
       ELSE c1

\* HashMap::insert: a later entry of the same key replaces the earlier one.
MapInsert(m, key, v) == (key :> v) @@ m
EmptyMap == << >>

\* `let mut compiler = Compiler { code: Vec::new(), functions: HashMap::new() }`
NewCompiler == [code |-> <<>>, functions |-> EmptyMap, ifs |-> <<>>, fors |-> <<>>, spans |-> <<>>]

RECURSIVE compile_functions(_, _)
compile_functions(c, fs) ==
    IF fs = <<>> THEN c
    ELSE LET entry == Len(c.code)
             c1 == [c EXCEPT !.functions = MapInsert(@, Head(fs).name, entry)]
             c2 == compile_function(c1, Head(fs))
             c3 == [c2 EXCEPT !.spans = Append(@,
                       [name |-> Head(fs).name, entry |-> entry, end |-> Len(c2.code)])]
         IN Then(c3, compile_functions(c3, Tail(fs)))

\* Compiler::compile
compile(program) == compile_functions(NewCompiler, program.functions)

(***************************************************************************)
(* error.rs: SemanticError and its Display.  A diagnostic is a record      *)
(* [e, name, msg, expected, got]; text is a sequence of string pieces.     *)
(***************************************************************************)
Diag(e, name, msg, expected, got) ==
    [e |-> e, name |-> name, msg |-> msg, expected |-> expected, got |-> got]
UndefinedVariable(x) == Diag("UndefinedVariable", x, <<>>, 0, 0)
DuplicateVariable(x) == Diag("DuplicateVariable", x, <<>>, 0, 0)
TypeMismatch(msg) == Diag("TypeMismatch", "", msg, 0, 0)
UndefinedFunction(f) == Diag("UndefinedFunction", f, <<>>, 0, 0)
WrongArgumentCount(f, expected, got) == Diag("WrongArgumentCount", f, <<>>, expected, got)

\* impl fmt::Display for SemanticError
to_string(err) ==
    CASE err.e = "UndefinedVariable" -> <<"Undefined variable: ", err.name>>
      [] err.e = "DuplicateVariable" -> <<"Duplicate variable declaration: ", err.name>>
      [] err.e = "TypeMismatch" -> <<"Type mismatch: ">> \o err.msg
      [] err.e = "UndefinedFunction" -> <<"Undefined function: ", err.name>>
      [] err.e = "WrongArgumentCount" ->
           <<"Wrong number of arguments for ", err.name, ": expected ",
             ToString(err.expected), ", got ", ToString(err.got)>>
      [] err.e = "ReturnTypeMismatch" -> <<"Return type mismatch: ">> \o err.msg

(***************************************************************************)
(* semantic.rs: SemanticAnalyzer.  The analyzer state a is [functions,     *)
(* scopes, errors].  A Type is "Int", "Float" or "String"; an Option<Type> *)
(* is a Type or NoType.  A fourth field, log, is history: one record per   *)
(* declaration, identifier use, operator, call, condition, return and      *)
(* function the analyzer went through, with the scopes it saw and the      *)
(* errors it pushed there.  No decision of the analyzer reads the log.     *)
(***************************************************************************)
NoType == "None"
\* {:?} of an Option<Type>
DebugOpt(ty) == IF ty = NoType THEN "None" ELSE "Some(" \o ty \o ")"

\* SemanticAnalyzer::new
NewAnalyzer ==
    [functions |-> EmptyMap, scopes |-> <<EmptyMap>>, errors |-> <<>>, log |-> <<>>]

PushError(a, err) == [a EXCEPT !.errors = Append(@, err)]
PushScope(a) == [a EXCEPT !.scopes = Append(@, EmptyMap)]
PopScope(a) == [a EXCEPT !.scopes = Front(@)]
\* self.scopes.last_mut().unwrap().insert(name, ty)
Declare(a, x, ty) == [a EXCEPT !.scopes[Len(a.scopes)] = MapInsert(@, x, ty)]

\* history: the errors pushed between analyzer states a and a1, and the log
\* records
Added(a, a1) == SubSeq(a1.errors, Len(a.errors) + 1, Len(a1.errors))
Note(a, entry) == [a EXCEPT !.log = Append(@, entry)]
FnNote(function, a, a1) ==
    [k |-> "fn", name |-> function.name, added |-> Added(a, a1)]
EnterNote(function) ==
    [k |-> "enter", name |-> function.name, ty |-> function.return_ty]
DeclNote(stmt, a, a1) ==
    [k |-> "decl", name |-> stmt.name, ty |-> stmt.ty, scopes |-> a.scopes,
     after |-> a1.scopes, added |-> Added(a, a1)]
UseNote(k, x, ty, a, a1) ==
    [k |-> k, name |-> x, ty |-> ty, scopes |-> a.scopes, added |-> Added(a, a1)]
BinNote(expr, lty, rty, ty) ==
    [k |-> "bin", bop |-> expr.bop, lty |-> lty, rty |-> rty, ty |-> ty]
CallNote(expr, ty, a, a1) ==
    [k |-> "call", name |-> expr.name, args |-> expr.args, ty |-> ty,
     scopes |-> a.scopes, added |-> Added(a, a1)]
CondNote(k, cond, ty, a, a1) ==
    [k |-> k, cond |-> cond, ty |-> ty, added |-> Added(a, a1)]
RetNote(ty) == [k |-> "ret", ty |-> ty]

RECURSIVE lookup_in(_, _, _)
lookup_in(scopes, i, x) ==
    IF i = 0 THEN NoType
    ELSE IF x \in DOMAIN scopes[i] THEN scopes[i][x]
    ELSE lookup_in(scopes, i - 1, x)

\* SemanticAnalyzer::lookup_variable: innermost scope first.
lookup_variable(a, x) == lookup_in(a.scopes, Len(a.scopes), x)

ParamTypes(params) == [i \in 1..Len(params) |-> params[i].ty]

\* collection in which a repeated name replaces the entry of the table
RECURSIVE collect_functions_last_wins(_, _)
collect_functions_last_wins(a, fs) ==
    IF fs = <<>> THEN a
    ELSE LET f == Head(fs)
             a0 == IF f.name \in DOMAIN a.functions
                   THEN PushError(a, DuplicateVariable(f.name))
                   ELSE a
             a1 == [a0 EXCEPT !.functions =
                       MapInsert(@, f.name,
                                 [ret |-> f.return_ty, params |-> ParamTypes(f.params)])]
             a2 == Note(a1, FnNote(f, a, a1))
         IN Then(a2, collect_functions_last_wins(a2, Tail(fs)))

\* SemanticAnalyzer::collect_functions
RECURSIVE collect_functions_from(_, _)
collect_functions_from(a, fs) ==
    IF fs = <<>> THEN a
    ELSE LET f == Head(fs)
             a1 == IF f.name \in DOMAIN a.functions
                   THEN PushError(a, DuplicateVariable(f.name))
                   ELSE [a EXCEPT !.functions =
                            MapInsert(@, f.name,
                                      [ret |-> f.return_ty, params |-> ParamTypes(f.params)])]
             a2 == Note(a1, FnNote(f, a, a1))
         IN Then(a2, collect_functions_from(a2, Tail(fs)))

collect_functions(a, program) == collect_functions_from(a, program.functions)

\* check_expr returns [a, ty]: the analyzer state after the check and the
\* Option<Type> of the expression.
RECURSIVE check_expr(_, _)
RECURSIVE check_args(_, _, _, _)

\* for (i, arg) in args.iter().enumerate(): i is the 0-based index
check_args(a, args, param_types, i) ==
    IF i >= Len(args) THEN a
    ELSE LET r == check_expr(a, args[i + 1])
             a1 == IF r.ty # param_types[i + 1]
                   THEN PushError(r.a, TypeMismatch(<<"Argument ", ToString(i), " type mismatch">>))
                   ELSE r.a
         IN Then(a1, check_args(a1, args, param_types, i + 1))

\* check_expr, Expr::Call
check_call(a, expr) ==
    LET r == IF expr.name \in DOMAIN a.functions
             THEN LET info == a.functions[expr.name]
                  IN IF Len(expr.args) # Len(info.params)
                     THEN [a |-> PushError(a, WrongArgumentCount(expr.name,
                                          Len(info.params), Len(expr.args))),
                           ty |-> info.ret]
                     ELSE [a |-> check_args(a, expr.args, info.params, 0), ty |-> info.ret]
             ELSE [a |-> PushError(a, UndefinedFunction(expr.name)), ty |-> NoType]
    IN [a |-> Note(r.a, CallNote(expr, r.ty, a, r.a)), ty |-> r.ty]

check_expr(a, expr) ==
    CASE expr.k = "Literal" -> [a |-> a, ty |-> expr.lit.t]
      [] expr.k = "Identifier" ->
           LET ty == lookup_variable(a, expr.name)
               a1 == IF ty # NoType THEN a ELSE PushError(a, UndefinedVariable(expr.name))
           IN [a |-> Note(a1, UseNote("use", expr.name, ty, a, a1)), ty |-> ty]
      [] expr.k = "Binary" ->
           LET l == check_expr(a, expr.left)
               r == check_expr(l.a, expr.right)
               same == l.ty = r.ty /\ l.ty # NoType
               b == IF expr.bop \in ArithOps
                    THEN (IF same THEN [a |-> r.a, ty |-> l.ty]
                          ELSE [a |-> PushError(r.a, TypeMismatch(<<"Arithmetic operands must have same type">>)),
                                ty |-> NoType])
                    ELSE (IF same THEN [a |-> r.a, ty |-> "Int"]
                          ELSE [a |-> PushError(r.a, TypeMismatch(<<"Comparison operands must have same type">>)),
                                ty |-> NoType])
           IN [a |-> Note(b.a, BinNote(expr, l.ty, r.ty, b.ty)), ty |-> b.ty]
      [] expr.k = "Call" -> check_call(a, expr)

CondMismatch == TypeMismatch(<<"Condition must be int">>)

\* the condition check letting a Float condition pass
check_cond_float_passes(a, cond, k) ==
    LET r == check_expr(a, cond)
        a1 == IF r.ty \notin {"Int", "Float"} THEN PushError(r.a, CondMismatch) ELSE r.a
    IN Note(a1, CondNote(k, cond, r.ty, r.a, a1))

\* let cond_ty = self.check_expr(cond); if cond_ty != Some(Type::Int) { push }
\* as check_stmt has it for Stmt::If and, in the same words, for Stmt::For;
\* k says which of the two
check_cond(a, cond, k) ==
    LET r == check_expr(a, cond)
        a1 == IF r.ty # "Int" THEN PushError(r.a, CondMismatch) ELSE r.a
    IN Note(a1, CondNote(k, cond, r.ty, r.a, a1))

\* the duplicate test asking every scope instead of the innermost
declared_anywhere(a, x) == lookup_variable(a, x) # NoType

\* self.scopes.last().unwrap().contains_key(name)
declared_here(a, x) == x \in DOMAIN Last(a.scopes)

RECURSIVE check_stmt(_, _)
RECURSIVE check_stmts(_, _)
check_stmts(a, stmts) ==
    IF stmts = <<>> THEN a
    ELSE LET a1 == check_stmt(a, Head(stmts))
         IN Then(a1, check_stmts(a1, Tail(stmts)))

check_stmt(a, stmt) ==
    CASE stmt.k = "Declaration" ->
           LET d == IF declared_here(a, stmt.name)
                    THEN PushError(a, DuplicateVariable(stmt.name))
                    ELSE LET a1 == Declare(a, stmt.name, stmt.ty)
                         IN IF IsSome(stmt.init)
                            THEN LET r == check_expr(a1, stmt.init)
                                 IN IF r.ty # stmt.ty
                                    THEN PushError(r.a, TypeMismatch(
                                             <<"Cannot assign ", DebugOpt(r.ty), " to ", stmt.ty>>))
                                    ELSE r.a
                            ELSE a1
           IN Note(d, DeclNote(stmt, a, d))
      [] stmt.k = "Assignment" ->
           LET r == check_expr(a, stmt.expr)
               var_ty == lookup_variable(r.a, stmt.name)
               a1 == IF var_ty # NoType
                     THEN (IF r.ty # var_ty
                           THEN PushError(r.a, TypeMismatch(
                                    <<"Cannot assign ", DebugOpt(r.ty), " to ", var_ty>>))
                           ELSE r.a)
                     ELSE PushError(r.a, UndefinedVariable(stmt.name))
           IN Note(a1, UseNote("assign", stmt.name, var_ty, r.a, a1))
      [] stmt.k = "Return" ->
           IF IsSome(stmt.expr)
           THEN LET r == check_expr(a, stmt.expr) IN Note(r.a, RetNote(r.ty))
           ELSE Note(a, RetNote(NoType))
      [] stmt.k = "Block" -> PopScope(check_stmts(PushScope(a), stmt.stmts))
      [] stmt.k = "If" ->
           LET a1 == check_cond(a, stmt.cond, "if")
               a2 == check_stmt(a1, stmt.then)
           IN IF IsSome(stmt.else_) THEN check_stmt(a2, stmt.else_) ELSE a2
      [] stmt.k = "For" ->
           LET a0 == PushScope(a)
               a1 == IF IsSome(stmt.init) THEN check_stmt(a0, stmt.init) ELSE a0
               a2 == IF IsSome(stmt.cond)
                     THEN check_cond(a1, stmt.cond, "for")
                     ELSE a1
               a3 == IF IsSome(stmt.update) THEN check_expr(a2, stmt.update).a ELSE a2
           IN PopScope(check_stmt(a3, stmt.body))
      [] stmt.k = "Expr" -> check_expr(a, stmt.expr).a

RECURSIVE declare_params(_, _)
declare_params(a, params) ==
    IF params = <<>> THEN a
    ELSE declare_params(Declare(a, Head(params).name, Head(params).ty), Tail(params))

\* SemanticAnalyzer::analyze_function
analyze_function(a, function) ==
    PopScope(check_stmt(declare_params(PushScope(Note(a, EnterNote(function))),
                                       function.params),
                        function.body))

RECURSIVE analyze_functions(_, _)
analyze_functions(a, fs) ==
    IF fs = <<>> THEN a
    ELSE LET a1 == analyze_function(a, Head(fs))
         IN Then(a1, analyze_functions(a1, Tail(fs)))

\* SemanticAnalyzer::analyze (the method): the analyzer after the call; the
\* value returned is the clone of its errors.
analyzer_analyze(a, program) ==
    analyze_functions(collect_functions(a, program), program.functions)

\* analyze (the free function)
analyze(program) == analyzer_analyze(NewAnalyzer, program).errors

(***************************************************************************)
(* State.                                                                  *)
(*   prog             the Program handed to analyze and to VM::new         *)
(*   diags            what analyze(prog) returned (run_vm of vm_tests.rs   *)
(*                    calls it before VM::new)                             *)
(*   overflow_checks  the build profile: TRUE when integer overflow panics *)
(*   dbg              what Compiler::compile made of prog in VM::new: its  *)
(*                    code and functions, and the record of the Ifs, Fors  *)
(*                    and function spans it compiled                       *)
(*   code, functions, stack, frames, ip   the fields of struct VM          *)
(*   status, result   where VM::run is: "new" (not called), "running",     *)
(*                    "ok" / "err" (returned Ok / Err), "panic" (unwound), *)
(*                    "exhausted" (the host could not grow the frame stack)*)
(*   hist             history, one record per frame: the Call that made    *)
(*                    the frame and, per instruction index, how often this *)
(*                    activation executed it (cnt) and took its jump (taken)*)
(*   source, stage, calls, outcome, ll_file   the run of compile() of lib.rs,  *)
(*                    described where its actions are                      *)
(*   an, reports      a SemanticAnalyzer value a caller holds and what the *)
(*                    calls of analyze returned, described where their     *)
(*                    actions are                                          *)
(*   items, parsed    the top-level items parse read and the Program it    *)
(*                    returned, described where its action is              *)
(*   text, lexed      a source text and what the calls of lex on it        *)
(*                    returned, described where their actions are          *)
(*   tokens, tree     a token slice and what parse returned for it,        *)
(*                    described where its action is                        *)
(***************************************************************************)
VARIABLES prog, diags, overflow_checks, dbg, code, functions, stack, frames, ip,
          status, result, hist, source, stage, calls, outcome, ll_file,
          an, reports, items, parsed, text, lexed, tokens, tree

vars == <<prog, diags, overflow_checks, dbg, code, functions, stack, frames, ip,
          status, result, hist, source, stage, calls, outcome, ll_file,
          an, reports, items, parsed, text, lexed, tokens, tree>>
\* what VM::run never writes
fixed == <<prog, diags, overflow_checks, dbg, code, functions, source, stage, calls,
           outcome, ll_file, an, reports, items, parsed, text, lexed, tokens, tree>>
\* what compile() of lib.rs never writes
vm_vars == <<overflow_checks, dbg, code, functions, stack, frames, ip, status, result, hist,
             an, reports, items, parsed, text, lexed, tokens, tree>>

NoResult == [kind |-> "None", val |-> Void, msg |-> <<>>]
Ok(v) == [kind |-> "Ok", val |-> v, msg |-> <<>>]
Err(msg) == [kind |-> "Err", val |-> Void, msg |-> msg]
Panicked(msg) == [kind |-> "Panic", val |-> Void, msg |-> msg]
Aborted == [kind |-> "Abort", val |-> Void, msg |-> <<"memory allocation failed">>]

Frame(return_ip, locals) == [return_ip |-> return_ip, locals |-> locals]

\* self.stack.pop().unwrap_or(Value::Void)
PopOrVoid(stk) == IF stk = <<>> THEN Void ELSE Last(stk)

Running == status = "running"
Fetching == Running /\ ip < Len(code)
\* `let op = self.code[self.ip].clone()`
Op == code[ip + 1]

Bump(f, i) == [f EXCEPT ![i] = Min(@ + 1, MaxCount)]
\* the history after the top activation executed instruction i
Counted(i) == [hist EXCEPT ![Len(hist)].cnt = Bump(@, i)]
CountedTaken(i) == [hist EXCEPT ![Len(hist)].cnt = Bump(@, i), ![Len(hist)].taken = Bump(@, i)]
ZeroCount == [i \in 0..(Len(code) - 1) |-> 0]
HistEntry(site, name, stk, locals) ==
    [site |-> site, name |-> name, stack |-> stk, locals |-> locals,
     cnt |-> ZeroCount, taken |-> ZeroCount]

Fault(msg) ==
    /\ status' = "err"
    /\ result' = Err(msg)

\* A faulty start, to test the properties against: the seed frame returns
\* to the first instruction instead of past the last.
RunStart_returns_to_zero ==
    /\ status = "new"
    /\ IF "main" \in DOMAIN functions
       THEN /\ ip' = functions["main"]
            /\ frames' = Append(frames, Frame(0, EmptyMap))
            /\ hist' = Append(hist, HistEntry(-1, "main", stack, EmptyMap))
            /\ status' = "running"
            /\ result' = result
       ELSE /\ Fault(<<"Function 'main' not found">>)
            /\ UNCHANGED <<ip, frames, hist>>
    /\ UNCHANGED <<fixed, stack>>

\* VM::run up to the loop: look main up, seed the frame stack.
RunStart ==
    /\ status = "new"
    /\ IF "main" \in DOMAIN functions
       THEN /\ ip' = functions["main"]
            /\ frames' = Append(frames, Frame(Len(code), EmptyMap))
            /\ hist' = Append(hist, HistEntry(-1, "main", stack, EmptyMap))
            /\ status' = "running"
            /\ result' = result
       ELSE /\ Fault(<<"Function 'main' not found">>)
            /\ UNCHANGED <<ip, frames, hist>>
    /\ UNCHANGED <<fixed, stack>>

\* `if self.ip >= self.code.len() { break; }`, `Opcode::Halt => break`, and
\* the `Ok(self.stack.pop().unwrap_or(Value::Void))` after the loop.
ExecBreak ==
    /\ Running
    /\ IF ip >= Len(code) THEN TRUE ELSE Op.op = "Halt"
    /\ ip' = IF ip >= Len(code) THEN ip ELSE ip + 1
    /\ status' = "ok"
    /\ result' = Ok(PopOrVoid(stack))
    /\ stack' = IF stack = <<>> THEN stack ELSE Front(stack)
    /\ UNCHANGED <<fixed, frames, hist>>

ExecLoadConst ==
    /\ Fetching /\ Op.op = "LoadConst"
    /\ ip' = ip + 1
    /\ stack' = Append(stack, Op.val)
    /\ hist' = Counted(ip)
    /\ UNCHANGED <<fixed, frames, status, result>>

\* A faulty LoadVar, to test the properties against: a variable the top
\* frame does not hold reads as Void and the run goes on.
ExecLoadVar_absent_is_void ==
    /\ Fetching /\ Op.op = "LoadVar"
    /\ ip' = ip + 1
    /\ hist' = Counted(ip)
    /\ IF frames # <<>>
       THEN /\ stack' = Append(stack, IF Op.name \in DOMAIN Last(frames).locals
                                      THEN Last(frames).locals[Op.name]
                                      ELSE Void)
            /\ UNCHANGED <<status, result>>
       ELSE /\ Fault(<<"No active stack frame">>)
            /\ UNCHANGED stack
    /\ UNCHANGED <<fixed, frames>>

ExecLoadVar ==
    /\ Fetching /\ Op.op = "LoadVar"
    /\ ip' = ip + 1
    /\ hist' = Counted(ip)
    /\ IF frames # <<>>
       THEN IF Op.name \in DOMAIN Last(frames).locals
            THEN /\ stack' = Append(stack, Last(frames).locals[Op.name])
                 /\ UNCHANGED <<status, result>>
            ELSE /\ Fault(<<"Undefined variable: ", Op.name>>)
                 /\ UNCHANGED stack
       ELSE /\ Fault(<<"No active stack frame">>)
            /\ UNCHANGED stack
    /\ UNCHANGED <<fixed, frames>>

\* A faulty StoreVar, to test the properties against: it writes the seed
\* frame's locals instead of the top frame's.
ExecStoreVar_seed_frame ==
    /\ Fetching /\ Op.op = "StoreVar"
    /\ ip' = ip + 1
    /\ hist' = Counted(ip)
    /\ IF stack # <<>>
       THEN /\ stack' = Front(stack)
            /\ IF frames # <<>>
               THEN /\ frames' = [frames EXCEPT ![1].locals =
                                     MapInsert(@, Op.name, Last(stack))]
                    /\ UNCHANGED <<status, result>>
               ELSE /\ Fault(<<"No active stack frame">>)
                    /\ UNCHANGED frames
       ELSE /\ Fault(<<"Stack underflow">>)
            /\ UNCHANGED <<stack, frames>>
    /\ UNCHANGED fixed

ExecStoreVar ==
    /\ Fetching /\ Op.op = "StoreVar"
    /\ ip' = ip + 1
    /\ hist' = Counted(ip)
    /\ IF stack # <<>>
       THEN /\ stack' = Front(stack)
            /\ IF frames # <<>>
               THEN /\ frames' = [frames EXCEPT ![Len(frames)].locals =
                                     MapInsert(@, Op.name, Last(stack))]
                    /\ UNCHANGED <<status, result>>
               ELSE /\ Fault(<<"No active stack frame">>)
                    /\ UNCHANGED frames
       ELSE /\ Fault(<<"Stack underflow">>)
            /\ UNCHANGED <<stack, frames>>
    /\ UNCHANGED fixed

PanicMessage(op) ==
    CASE op = "Plus" -> <<"attempt to add with overflow">>
      [] op = "Minus" -> <<"attempt to subtract with overflow">>
      [] op = "Multiply" -> <<"attempt to multiply with overflow">>
      [] OTHER -> <<"attempt to divide by zero or with overflow">>

ExecBinaryOp ==
    /\ Fetching /\ Op.op = "BinaryOp"
    /\ ip' = ip + 1
    /\ hist' = Counted(ip)
    /\ IF stack = <<>>
       THEN /\ Fault(<<"Stack underflow">>)
            /\ UNCHANGED stack
       ELSE IF Len(stack) = 1
       THEN /\ Fault(<<"Stack underflow">>)
            /\ stack' = Front(stack)
       ELSE LET right == stack[Len(stack)]
                left == stack[Len(stack) - 1]
                r == eval_binary(left, Op.bop, right, overflow_checks)
                rest == SubSeq(stack, 1, Len(stack) - 2)
            IN IF r.panic
               THEN /\ status' = "panic"
                    /\ result' = Panicked(PanicMessage(Op.bop))
                    /\ stack' = rest
               ELSE /\ stack' = Append(rest, r.val)
                    /\ UNCHANGED <<status, result>>
    /\ UNCHANGED <<fixed, frames>>

\* A faulty Jump, to test the properties against: ip is set back to the
\* Jump itself instead of its target.
ExecJump_to_itself ==
    /\ Fetching /\ Op.op = "Jump"
    /\ ip' = ip
    /\ hist' = CountedTaken(ip)
    /\ UNCHANGED <<fixed, stack, frames, status, result>>

ExecJump ==
    /\ Fetching /\ Op.op = "Jump"
    /\ ip' = Op.target
    /\ hist' = CountedTaken(ip)
    /\ UNCHANGED <<fixed, stack, frames, status, result>>

ExecJumpIfFalse ==
    /\ Fetching /\ Op.op = "JumpIfFalse"
    /\ IF stack = <<>>
       THEN /\ ip' = ip + 1
            /\ hist' = Counted(ip)
            /\ Fault(<<"Stack underflow">>)
            /\ UNCHANGED stack
       ELSE /\ stack' = Front(stack)
            /\ IF ~is_truthy(Last(stack))
               THEN ip' = Op.target /\ hist' = CountedTaken(ip)
               ELSE ip' = ip + 1 /\ hist' = Counted(ip)
            /\ UNCHANGED <<status, result>>
    /\ UNCHANGED <<fixed, frames>>

ExecCall ==
    /\ Fetching /\ Op.op = "Call"
    /\ IF Op.name \in DOMAIN functions
       THEN IF Len(frames) < MaxFrames
            THEN /\ frames' = Append(frames, Frame(ip + 1, EmptyMap))
                 /\ hist' = Append(Counted(ip),
                                   HistEntry(ip, Op.name, stack,
                                             IF frames = <<>> THEN EmptyMap
                                             ELSE Last(frames).locals))
                 /\ ip' = functions[Op.name]
                 /\ UNCHANGED <<status, result>>
            ELSE \* Vec::push cannot allocate: the process aborts
                 /\ ip' = ip + 1
                 /\ hist' = Counted(ip)
                 /\ status' = "exhausted"
                 /\ result' = Aborted
                 /\ UNCHANGED frames
       ELSE /\ ip' = ip + 1
            /\ hist' = Counted(ip)
            /\ Fault(<<"Undefined function: ", Op.name>>)
            /\ UNCHANGED frames
    /\ UNCHANGED <<fixed, stack>>

\* A faulty Return, to test the properties against: it ends the run with
\* the top of the operand stack whichever frame it pops.
ExecReturn_always_ends ==
    /\ Fetching /\ Op.op = "Return"
    /\ IF frames # <<>>
       THEN /\ frames' = Front(frames)
            /\ hist' = Front(hist)
            /\ ip' = Last(frames).return_ip
            /\ status' = "ok"
            /\ result' = Ok(PopOrVoid(stack))
            /\ stack' = IF stack = <<>> THEN stack ELSE Front(stack)
       ELSE /\ ip' = ip + 1
            /\ Fault(<<"Call stack underflow">>)
            /\ UNCHANGED <<frames, hist, stack>>
    /\ UNCHANGED fixed

ExecReturn ==
    /\ Fetching /\ Op.op = "Return"
    /\ IF frames # <<>>
       THEN /\ frames' = Front(frames)
            /\ hist' = Front(hist)
            /\ ip' = Last(frames).return_ip
            /\ IF Len(frames) = 1
               THEN /\ status' = "ok"
                    /\ result' = Ok(PopOrVoid(stack))
                    /\ stack' = IF stack = <<>> THEN stack ELSE Front(stack)
               ELSE UNCHANGED <<status, result, stack>>
       ELSE /\ ip' = ip + 1
            /\ Fault(<<"Call stack underflow">>)
            /\ UNCHANGED <<frames, hist, stack>>
    /\ UNCHANGED fixed

ExecPop ==
    /\ Fetching /\ Op.op = "Pop"
    /\ ip' = ip + 1
    /\ hist' = Counted(ip)
    /\ stack' = IF stack = <<>> THEN stack ELSE Front(stack)
    /\ UNCHANGED <<fixed, frames, status, result>>

(***************************************************************************)
(* The programs the model runs: the programs of the tests (vm_tests.rs,    *)
(* integration_tests.rs, semantic.rs) with their literals drawn from       *)
(* 0..MaxLit, and variations of them.                                      *)
(***************************************************************************)
MaxLit == 3
Lits == 0..MaxLit

Main(stmts) == Func("Int", "main", <<>>, Block(stmts))
OneMain(stmts) == Program(<<>>, <<Main(stmts)>>)

\* test_vm_function_call, with a non-commutative body
AddFn == Func("Int", "add", <<Param("Int", "a"), Param("Int", "b")>>,
              Block(<<Ret(Bin(Id("a"), "Minus", Id("b")))>>))
PCall(x, y) ==
    Program(<<>>, <<AddFn, Main(<<Ret(CallE("add", <<Lit(x), Lit(y)>>))>>)>>)
\* a call in the middle of an expression, and as an argument of a call
PCallNested(x, y) ==
    Program(<<>>, <<AddFn,
        Main(<<Ret(Bin(Lit(x), "Plus",
                       CallE("add", <<CallE("add", <<Lit(y), Lit(1)>>), Lit(x)>>)))>>)>>)
\* two parameters of one name: analyze accepts it
PDupParam(x, y) ==
    Program(<<>>, <<Func("Int", "add", <<Param("Int", "a"), Param("Int", "a")>>,
                         Block(<<Ret(Id("a"))>>)),
                    Main(<<Ret(CallE("add", <<Lit(x), Lit(y)>>))>>)>>)

\* test_vm_recursion
FibFn == Func("Int", "fib", <<Param("Int", "n")>>,
              Block(<<IfS(Bin(Id("n"), "LessEqual", Lit(1)), Block(<<Ret(Id("n"))>>), None),
                      Ret(Bin(CallE("fib", <<Bin(Id("n"), "Minus", Lit(1))>>), "Plus",
                              CallE("fib", <<Bin(Id("n"), "Minus", Lit(2))>>)))>>))
PFib(x) == Program(<<>>, <<FibFn, Main(<<Ret(CallE("fib", <<Lit(x)>>))>>)>>)
\* a caller with locals of the callee's parameter name around a recursive call
PLocals(x) ==
    Program(<<>>, <<FibFn,
        Main(<<Decl("Int", "n", Lit(x)),
               Decl("Int", "r", CallE("fib", <<Id("n")>>)),
               Ret(Bin(Id("r"), "Plus", Id("n")))>>)>>)
\* recursion without a base case
PRecurse == Program(<<>>, <<Func("Int", "f", <<>>, Block(<<Ret(CallE("f", <<>>))>>)),
                            Main(<<Ret(CallE("f", <<>>))>>)>>)

\* test_vm_control_flow: the branches return
PIfRet(x, y) ==
    OneMain(<<Decl("Int", "a", Lit(x)),
              IfS(Bin(Id("a"), "GreaterThan", Lit(y)),
                  Block(<<Ret(Lit(1))>>), Block(<<Ret(Lit(0))>>))>>)
\* the branches fall through, with and without else
PIfFall(x, withElse) ==
    OneMain(<<Decl("Int", "a", Lit(x)),
              Decl("Int", "r", Lit(0)),
              IfS(Bin(Id("a"), "GreaterThan", Lit(1)),
                  Block(<<Assign("r", Lit(1))>>),
                  IF withElse THEN Block(<<Assign("r", Lit(2))>>) ELSE None),
              Ret(Bin(Id("r"), "Plus", Id("a")))>>)
\* an if nested in the else of an if (else if)
PIfElseIf(x) ==
    OneMain(<<Decl("Int", "a", Lit(x)),
              Decl("Int", "r", Lit(0)),
              IfS(Bin(Id("a"), "Equal", Lit(0)), Assign("r", Lit(1)),
                  IfS(Bin(Id("a"), "Equal", Lit(1)), Assign("r", Lit(2)), Assign("r", Lit(3)))),
              Ret(Id("r"))>>)
\* a condition whose run-time value is what the callee returns: return types
\* are not checked, so it can be a Float or Void
RetExprs == {Ret(Lit(0)), Ret(Lit(2)), Ret(FLit(0, 1)), Ret(FLit(5, 2)), Ret(None)}
PIfKind(ret, withElse) ==
    Program(<<>>, <<Func("Int", "z", <<>>, Block(<<ret>>)),
        Main(<<Decl("Int", "r", Lit(0)),
               IfS(CallE("z", <<>>),
                   Block(<<Assign("r", Lit(1))>>),
                   IF withElse THEN Block(<<Assign("r", Lit(2))>>) ELSE None),
               Ret(Id("r"))>>)>>)

\* test_vm_loop; the update is an expression whose value is dropped
SumLoop(x, upd) ==
    ForS(Decl("Int", "i", Lit(0)), Bin(Id("i"), "LessThan", Lit(x)), upd,
         Block(<<Assign("sum", Bin(Id("sum"), "Plus", Id("i"))),
                 Assign("i", Bin(Id("i"), "Plus", Lit(1)))>>))
PFor(x, withUpdate) ==
    OneMain(<<Decl("Int", "sum", Lit(0)),
              SumLoop(x, IF withUpdate THEN Id("i") ELSE None),
              Ret(Id("sum"))>>)
\* a loop in a loop, the inner one without init
PForNested(x, y) ==
    OneMain(<<Decl("Int", "n", Lit(0)),
              Decl("Int", "j", Lit(0)),
              ForS(Decl("Int", "i", Lit(0)), Bin(Id("i"), "LessThan", Lit(x)), Lit(7),
                   Block(<<Assign("j", Lit(0)),
                           ForS(None, Bin(Id("j"), "LessThan", Lit(y)), None,
                                Block(<<Assign("j", Bin(Id("j"), "Plus", Lit(1))),
                                        Assign("n", Bin(Id("n"), "Plus", Lit(1)))>>)),
                           Assign("i", Bin(Id("i"), "Plus", Lit(1)))>>)),
              Ret(Id("n"))>>)
\* a loop without condition, left by a return in its body
PForNoCond(x) ==
    OneMain(<<Decl("Int", "i", Lit(0)),
              ForS(None, None, Id("i"),
                   Block(<<IfS(Bin(Id("i"), "GreaterEqual", Lit(x)), Ret(Id("i")), None),
                           Assign("i", Bin(Id("i"), "Plus", Lit(1)))>>)),
              Ret(Lit(9))>>)
\* a loop with a condition, left by a return in its body on some inputs
PForRet(x, y) ==
    OneMain(<<Decl("Int", "i", Lit(0)),
              ForS(None, Bin(Id("i"), "LessThan", Lit(x)), Lit(0),
                   Block(<<IfS(Bin(Id("i"), "Equal", Lit(y)), Ret(Lit(8)), None),
                           Assign("i", Bin(Id("i"), "Plus", Lit(1)))>>)),
              Ret(Id("i"))>>)
\* loops that never end
PForever(cond) == OneMain(<<ForS(None, cond, None, Block(<<>>)), Ret(Lit(0))>>)
PCountForever ==
    OneMain(<<Decl("Int", "i", Lit(0)),
              ForS(None, None, None, Block(<<Assign("i", Bin(Id("i"), "Plus", Lit(1)))>>))>>)
\* a loop whose body calls the function the loop is in
PForCall(x) ==
    Program(<<>>, <<Func("Int", "f", <<Param("Int", "n")>>,
        Block(<<Decl("Int", "s", Lit(1)),
                ForS(Decl("Int", "i", Lit(0)), Bin(Id("i"), "LessThan", Id("n")), Id("s"),
                     Block(<<Assign("s", Bin(Id("s"), "Plus",
                                             CallE("f", <<Bin(Id("n"), "Minus", Lit(1))>>))),
                             Assign("i", Bin(Id("i"), "Plus", Lit(1)))>>)),
                Ret(Id("s"))>>)),
        Main(<<Ret(CallE("f", <<Lit(x)>>))>>)>>)

\* test_vm_simple_add: one operator on two literals
IntEdge == {0, 1, IntMax}
PArith(op, x, y) == OneMain(<<Ret(Bin(Lit(x), op, Lit(y)))>>)
\* IntMin / -1
PMinDiv == OneMain(<<Ret(Bin(Bin(Bin(Lit(0), "Minus", Lit(IntMax)), "Minus", Lit(1)),
                             "Divide", Bin(Lit(0), "Minus", Lit(1))))>>)
FloatLits == {FLit(0, 1), FLit(3, 2)}
PFloat(op, l, r) == Program(<<>>, <<Func("Float", "main", <<>>, Block(<<Ret(Bin(l, op, r))>>))>>)
\* an operand that is Void or of the other kind at run time
PMixed(op, ret) ==
    Program(<<>>, <<Func("Int", "z", <<>>, Block(<<ret>>)),
                    Main(<<Ret(Bin(CallE("z", <<>>), op, Lit(1)))>>)>>)

\* functions whose body does not end in a return statement
OneFn == Func("Int", "one", <<>>, Block(<<Ret(Lit(1))>>))
IdFn == Func("Int", "id", <<Param("Int", "a")>>, Block(<<Ret(Id("a"))>>))
NoRetBodies == {Block(<<>>), Block(<<Decl("Int", "a", Lit(1))>>),
                Block(<<Decl("Int", "a", None)>>),
                Block(<<ExprS(Lit(2))>>),
                Block(<<IfS(Lit(1), Block(<<>>), Block(<<Ret(Lit(2))>>))>>),
                Block(<<IfS(Lit(0), Block(<<>>), Block(<<Ret(Lit(2))>>))>>),
                Block(<<IfS(Lit(1), Block(<<Ret(Lit(2))>>), None)>>)}
GFn(body) == Func("Int", "g", <<>>, body)
CallG == Main(<<Ret(Bin(Lit(2), "Plus", CallE("g", <<>>)))>>)
PNoRetFirst(body) == Program(<<>>, <<GFn(body), CallG>>)
PNoRetAfter(body) == Program(<<>>, <<OneFn, GFn(body), CallG>>)
PNoRetLast(body) == Program(<<>>, <<CallG, OneFn, GFn(body)>>)
PNoRetBeforeId(body) == Program(<<>>, <<OneFn, GFn(body), IdFn, CallG>>)
PMainOnly(body) == Program(<<>>, <<Func("Int", "main", <<>>, body)>>)
PNoMain == Program(<<>>, <<OneFn>>)

\* programs analyze rejects (semantic.rs tests, test_non_variadic_wrong_arity,
\* test_printf_without_declaration_fails)
PUndefVar == Program(<<>>, <<Func("Int", "foo", <<>>, Block(<<Ret(Id("x"))>>)),
                             Main(<<Ret(CallE("foo", <<>>))>>)>>)
PDupVar == OneMain(<<Decl("Int", "x", Lit(2)), Decl("Int", "x", Lit(3)), Ret(Id("x"))>>)
PTypeMismatch == OneMain(<<Decl("Int", "x", FLit(5, 1)), Ret(Id("x"))>>)
PUndefFn == OneMain(<<ExprS(CallE("printf", <<Lit(1)>>)), Ret(Lit(0))>>)
\* several defects in one function
PManyErrors ==
    OneMain(<<Decl("Int", "x", Id("y")), ExprS(CallE("h", <<>>)), Ret(Id("z"))>>)
\* a call of a defined function with `got` arguments, alone or as the
\* argument of another such call
Args(got) == [i \in 1..got |-> Lit(i)]
PArity(got) == Program(<<>>, <<AddFn, Main(<<Ret(CallE("add", Args(got)))>>)>>)
PArityNested(got) ==
    Program(<<>>, <<AddFn, IdFn,
        Main(<<Ret(CallE("id", <<CallE("add", Args(got)), Lit(0)>>))>>)>>)
\* calls of extern functions: fixed arity, variadic, injected from stdio.h
FooExt == Extern("Int", "foo", <<"Int">>, FALSE)
LogExt == Extern("Int", "logi", <<"Int">>, TRUE)
PrintfExt == Extern("Int", "printf", <<"String">>, TRUE)
PExtern(got) ==
    Program(<<FooExt>>, <<Main(<<ExprS(CallE("foo", Args(got))), Ret(Lit(0))>>)>>)
PVariadic(got) ==
    Program(<<LogExt, PrintfExt>>, <<Main(<<ExprS(CallE("logi", Args(got))), Ret(Lit(0))>>)>>)

CallPrograms ==
    {PCall(x, y) : x \in Lits, y \in Lits} \cup {PCallNested(x, y) : x \in Lits, y \in Lits}
        \cup {PDupParam(x, y) : x \in Lits, y \in Lits}
        \cup {PFib(x) : x \in Lits} \cup {PLocals(x) : x \in Lits} \cup {PRecurse}
IfPrograms ==
    {PIfRet(x, y) : x \in Lits, y \in Lits}
        \cup {PIfFall(x, e) : x \in Lits, e \in BOOLEAN}
        \cup {PIfElseIf(x) : x \in Lits}
        \cup {PIfKind(r, e) : r \in RetExprs, e \in BOOLEAN}
ForPrograms ==
    {PFor(x, u) : x \in Lits, u \in BOOLEAN}
        \cup {PForNested(x, y) : x \in Lits, y \in Lits}
        \cup {PForNoCond(x) : x \in Lits}
        \cup {PForRet(x, y) : x \in Lits, y \in Lits}
        \cup {PForever(c) : c \in {None, Lit(1)}} \cup {PCountForever}
        \cup {PForCall(x) : x \in Lits}
ArithPrograms ==
    {PArith(op, x, y) : op \in BinOps, x \in IntEdge, y \in IntEdge} \cup {PMinDiv}
        \cup {PFloat(op, l, r) : op \in BinOps, l \in FloatLits, r \in FloatLits}
        \cup {PMixed(op, r) : op \in {"Plus", "Divide", "LessThan"}, r \in RetExprs}
NoRetPrograms ==
    {PNoRetFirst(b) : b \in NoRetBodies} \cup {PNoRetAfter(b) : b \in NoRetBodies}
        \cup {PNoRetLast(b) : b \in NoRetBodies} \cup {PNoRetBeforeId(b) : b \in NoRetBodies}
        \cup {PMainOnly(b) : b \in NoRetBodies} \cup {PNoMain}
RejectedPrograms ==
    {PUndefVar, PDupVar, PTypeMismatch, PUndefFn, PManyErrors}
        \cup {PArity(n) : n \in Lits} \cup {PArityNested(n) : n \in Lits}
ExternPrograms == {PExtern(n) : n \in Lits} \cup {PVariadic(n) : n \in Lits}

\* variables and scopes at run time: a declaration without initializer read
\* before or after its first store, a variable read in its own initializer,
\* and an outer variable read after a block, a for initializer or a for body
\* declared the name again
PUninit(x) ==
    OneMain(<<Decl("Int", "r", None),
              IfS(Bin(Lit(x), "GreaterThan", Lit(1)), Block(<<Assign("r", Lit(x))>>), None),
              Ret(Id("r"))>>)
PSelfInit == OneMain(<<Decl("Int", "x", Id("x")), Ret(Id("x"))>>)
PShadowRun(x, y) ==
    OneMain(<<Decl("Int", "a", Lit(x)),
              Block(<<Decl("Int", "a", Lit(y)), Assign("a", Bin(Id("a"), "Plus", Lit(1)))>>),
              Ret(Id("a"))>>)
PForInitShadow(x, y) ==
    OneMain(<<Decl("Int", "i", Lit(x)),
              ForS(Decl("Int", "i", Lit(y)), Bin(Id("i"), "LessThan", Lit(y)),
                   None, Block(<<>>)),
              Ret(Id("i"))>>)
PForBodyShadow(x, y) ==
    OneMain(<<Decl("Int", "a", Lit(x)),
              ForS(Decl("Int", "i", Lit(0)), Bin(Id("i"), "LessThan", Lit(1)),
                   None, Block(<<Decl("Int", "a", Lit(y)), Assign("i", Lit(1))>>)),
              Ret(Id("a"))>>)
VariablePrograms ==
    {PUninit(x) : x \in Lits} \cup {PSelfInit}
        \cup {PShadowRun(x, y) : x \in Lits, y \in Lits}
        \cup {PForInitShadow(x, y) : x \in Lits, y \in Lits}
        \cup {PForBodyShadow(x, y) : x \in Lits, y \in Lits}

Programs == CallPrograms \cup IfPrograms \cup ForPrograms \cup ArithPrograms
                \cup NoRetPrograms \cup RejectedPrograms \cup ExternPrograms
                \cup VariablePrograms

Accepted == diags = <<>>

(***************************************************************************)
(* VM::new and VM::run on a program of Programs.  The variables of the     *)
(* compile pipeline keep their idle values.                                *)
(***************************************************************************)
EmptyProgram == Program(<<>>, <<>>)
NoSource == [lex_ok |-> FALSE, parse_ok |-> FALSE, program |-> EmptyProgram]
NoOutcome == [kind |-> "None", from |-> "", lines |-> <<>>]
NoParse == [includes |-> <<>>, extern_functions |-> <<>>, functions |-> <<>>, done |-> FALSE]
NoTree == [kind |-> "None"]

\* VM::new: the state after construction
Init ==
    /\ prog \in Programs
    /\ diags = analyze(prog)
    /\ overflow_checks \in BOOLEAN
    /\ dbg = compile(prog)
    /\ code = dbg.code
    /\ functions = dbg.functions
    /\ stack = <<>>
    /\ frames = <<>>
    /\ ip = 0
    /\ status = "new"
    /\ result = NoResult
    /\ hist = <<>>
    /\ source = NoSource
    /\ stage = "off"
    /\ calls = <<>>
    /\ outcome = NoOutcome
    /\ ll_file = FALSE
    /\ an = NewAnalyzer
    /\ reports = <<>>
    /\ items = <<>>
    /\ parsed = NoParse
    /\ text = <<>>
    /\ lexed = <<>>
    /\ tokens = <<>>
    /\ tree = NoTree

Next ==
    \/ RunStart
    \/ ExecBreak
    \/ ExecLoadConst
    \/ ExecLoadVar
    \/ ExecStoreVar
    \/ ExecBinaryOp
    \/ ExecJump
    \/ ExecJumpIfFalse
    \/ ExecCall
    \/ ExecReturn
    \/ ExecPop

Spec == Init /\ [][Next]_vars

\* the run loop takes the next step whenever there is one
FairSpec == Spec /\ WF_vars(Next)

(***************************************************************************)
(* lib.rs: compile(source, output).                                        *)
(*   source   what lex and parse make of the source text: whether lex      *)
(*            returns Ok, whether parse returns Ok, and the Program parse  *)
(*            returns when both do                                         *)
(*   stage    the statement of compile() that runs next                    *)
(*   calls    the stages called so far, in the order of the calls          *)
(*   outcome  what compile() returned: kind "Ok" or "Err"; from is the     *)
(*            statement that returned; lines is the text of the message,   *)
(*            split at "\n", for the two messages compile() formats itself *)
(*   ll_file  whether the .ll file exists                                  *)
(* generate_ir, fs::write, clang and fs::remove_file are the environment:  *)
(* each can succeed or fail.                                               *)
(***************************************************************************)
Sources == [lex_ok : BOOLEAN, parse_ok : BOOLEAN, program : Programs]

Returned(kind, from, lines) == [kind |-> kind, from |-> from, lines |-> lines]

\* A faulty report, to test the properties against: only the first
\* diagnostic is written.
SemanticReport_first_only(errors) ==
    <<<<"Semantic errors:">>>> \o [i \in 1..Min(1, Len(errors)) |-> to_string(errors[i])]

\* errors.iter().map(|e| e.to_string()).collect::<Vec<_>>().join("\n") after
\* "Semantic errors:\n": one line per diagnostic, in the order of the list
SemanticReport(errors) ==
    <<<<"Semantic errors:">>>> \o [i \in 1..Len(errors) |-> to_string(errors[i])]

\* `?` and `return Err(..)`: compile() returns at this statement
ReturnErr(from, lines) ==
    /\ stage' = "done"
    /\ outcome' = Returned("Err", from, lines)

\* let tokens = lexer::lex(source)?;
DoLex ==
    /\ stage = "lex"
    /\ calls' = Append(calls, "lex")
    /\ IF source.lex_ok
       THEN stage' = "parse" /\ UNCHANGED outcome
       ELSE ReturnErr("lex", <<>>)
    /\ UNCHANGED <<vm_vars, prog, diags, source, ll_file>>

\* let ast = parser::parse(&tokens)?;
DoParse ==
    /\ stage = "parse"
    /\ calls' = Append(calls, "parse")
    /\ IF source.parse_ok
       THEN stage' = "analyze" /\ prog' = source.program /\ UNCHANGED outcome
       ELSE ReturnErr("parse", <<>>) /\ UNCHANGED prog
    /\ UNCHANGED <<vm_vars, diags, source, ll_file>>

\* let errors = semantic::analyze(&ast); if !errors.is_empty() { return Err(..) }
DoAnalyze ==
    /\ stage = "analyze"
    /\ calls' = Append(calls, "analyze")
    /\ diags' = analyze(prog)
    /\ IF diags' # <<>>
       THEN ReturnErr("analyze", SemanticReport(diags'))
       ELSE stage' = "generate_ir" /\ UNCHANGED outcome
    /\ UNCHANGED <<vm_vars, prog, source, ll_file>>

\* let ir = codegen::generate_ir(&ast)?;
DoGenerateIr ==
    /\ stage = "generate_ir"
    /\ calls' = Append(calls, "generate_ir")
    /\ \E ok \in BOOLEAN :
          IF ok THEN stage' = "write" /\ UNCHANGED outcome
          ELSE ReturnErr("generate_ir", <<>>)
    /\ UNCHANGED <<vm_vars, prog, diags, source, ll_file>>

\* fs::write(&ir_file, &ir)?;  a failed write may leave the file behind
DoWriteIr ==
    /\ stage = "write"
    /\ calls' = Append(calls, "write")
    /\ \E ok \in BOOLEAN, left \in BOOLEAN :
          IF ok THEN stage' = "clang" /\ ll_file' = TRUE /\ UNCHANGED outcome
          ELSE ReturnErr("write", <<>>) /\ ll_file' = left
    /\ UNCHANGED <<vm_vars, prog, diags, source>>

\* Command::new("clang")...status()?; if !status.success() { return Err(..) }
DoClang ==
    /\ stage = "clang"
    /\ calls' = Append(calls, "clang")
    /\ \E r \in {"spawn_failed", "exit_nonzero", "exit_zero"} :
          CASE r = "spawn_failed" -> ReturnErr("clang", <<>>)
            [] r = "exit_nonzero" -> ReturnErr("status", <<<<"Compilation failed">>>>)
            [] r = "exit_zero" -> stage' = "cleanup" /\ UNCHANGED outcome
    /\ UNCHANGED <<vm_vars, prog, diags, source, ll_file>>

\* let _ = fs::remove_file(ir_file); Ok(())
DoCleanup ==
    /\ stage = "cleanup"
    /\ calls' = Append(calls, "remove_file")
    /\ \E ok \in BOOLEAN : ll_file' = (IF ok THEN FALSE ELSE ll_file)
    /\ stage' = "done"
    /\ outcome' = Returned("Ok", "end", <<>>)
    /\ UNCHANGED <<vm_vars, prog, diags, source>>

\* the call of compile(): no VM is made
InitCompile ==
    /\ source \in Sources
    /\ prog = EmptyProgram
    /\ diags = <<>>
    /\ overflow_checks = FALSE
    /\ dbg = NewCompiler
    /\ code = <<>>
    /\ functions = EmptyMap
    /\ stack = <<>>
    /\ frames = <<>>
    /\ ip = 0
    /\ status = "off"
    /\ result = NoResult
    /\ hist = <<>>
    /\ stage = "lex"
    /\ calls = <<>>
    /\ outcome = NoOutcome
    /\ ll_file = FALSE
    /\ an = NewAnalyzer
    /\ reports = <<>>
    /\ items = <<>>
    /\ parsed = NoParse
    /\ text = <<>>
    /\ lexed = <<>>
    /\ tokens = <<>>
    /\ tree = NoTree

NextCompile ==
    \/ DoLex
    \/ DoParse
    \/ DoAnalyze
    \/ DoGenerateIr
    \/ DoWriteIr
    \/ DoClang
    \/ DoCleanup

SpecCompile == InitCompile /\ [][NextCompile]_vars

(***************************************************************************)
(* Calls of analyze.  A caller holds a Program and a SemanticAnalyzer made *)
(* by SemanticAnalyzer::new; it calls the free function analyze, which     *)
(* makes an analyzer of its own, or the public method analyze of the       *)
(* analyzer it holds.  reports has one record per call: which of the two   *)
(* was called (by), the Vec returned (errors) and, as history, the         *)
(* analyzer the call worked on as the call left it (final).                *)
(***************************************************************************)
MaxCalls == 2
MaxArgs == 3

Types == {"Int", "Float"}
LitOf(ty) == IF ty = "Int" THEN Lit(1) ELSE FLit(3, 2)

\* add called with any short list of arguments: a literal of the declared
\* type, a literal of the other type, an identifier nothing declares
ArgExprs == {Lit(1), FLit(3, 2), Id("u")}
ArgLists == UNION {[1..n -> ArgExprs] : n \in 0..MaxArgs}
PArgs(args) == Program(<<>>, <<AddFn, Main(<<Ret(CallE("add", args))>>)>>)

\* test_undefined_variable, test_duplicate_variable
PUndefRet == Program(<<>>, <<Func("Int", "foo", <<>>, Block(<<Ret(Id("x"))>>))>>)
PTestDup ==
    Program(<<>>, <<Func("Int", "foo", <<>>,
        Block(<<Decl("Int", "x", Lit(5)), Decl("Int", "x", Lit(6)), Ret(Id("x"))>>))>>)
\* a name declared again: in a block inside, in the body of the function
\* whose parameter it is, in the same block, in the body of a for that
\* declared it; a name used after its block, assigned without declaration,
\* used twice without declaration
PShadowBlock(t1, t2) ==
    OneMain(<<Decl(t1, "x", LitOf(t1)),
              Block(<<Decl(t2, "x", LitOf(t2)), Decl("Int", "y", Id("x"))>>),
              Decl("Int", "z", Id("x")), Ret(Id("z"))>>)
PShadowParam(t1, t2) ==
    Program(<<>>, <<Func("Int", "f", <<Param(t1, "x")>>,
        Block(<<Decl(t2, "x", LitOf(t2)), Ret(Id("x"))>>))>>)
PRedeclare(t1, t2) ==
    OneMain(<<Decl(t1, "x", LitOf(t1)), Decl(t2, "x", Id("w")),
              Decl("Int", "y", Id("x")), Ret(Id("y"))>>)
PForShadow(t1, t2) ==
    OneMain(<<ForS(Decl(t1, "i", LitOf(t1)), Bin(Id("i"), "LessThan", LitOf(t1)), Id("i"),
                   Block(<<Decl(t2, "i", LitOf(t2)), Assign("i", Id("i")),
                           Decl(t1, "i", None)>>)),
              Ret(Id("i"))>>)
PLeftScope == OneMain(<<Block(<<Decl("Int", "x", Lit(1))>>), Ret(Id("x"))>>)
PUndefAssign == OneMain(<<Assign("x", Lit(1)), Ret(Lit(0))>>)
PUndefTwice == OneMain(<<Ret(Bin(Id("x"), "Plus", Id("x")))>>)
ScopePrograms ==
    {PUndefRet, PTestDup, PLeftScope, PUndefAssign, PUndefTwice}
        \cup {PShadowBlock(t1, t2) : t1 \in Types, t2 \in Types}
        \cup {PShadowParam(t1, t2) : t1 \in Types, t2 \in Types}
        \cup {PRedeclare(t1, t2) : t1 \in Types, t2 \in Types}
        \cup {PForShadow(t1, t2) : t1 \in Types, t2 \in Types}

\* one name defined once, twice or three times with two signatures, and
\* main calling it from before, between or after the definitions
F1 == Func("Int", "f", <<Param("Int", "a")>>, Block(<<Ret(Id("a"))>>))
F2 == Func("Float", "f", <<Param("Float", "a"), Param("Float", "b")>>,
           Block(<<Ret(Bin(Id("a"), "Plus", Id("b")))>>))
FDefs == {<<F1>>, <<F1, F2>>, <<F2, F1>>, <<F1, F1>>, <<F1, F2, F1>>, <<F2, F2, F1>>}
FCalls == {CallE("f", <<Lit(1)>>), CallE("f", <<FLit(3, 2), FLit(3, 2)>>)}
InsertAt(fs, at, f) == SubSeq(fs, 1, at) \o <<f>> \o SubSeq(fs, at + 1, Len(fs))
PDupFn(fs, call, at) ==
    Program(<<>>, InsertAt(fs, at, Main(<<ExprS(call), Ret(Lit(0))>>)))
DupFnPrograms ==
    {PDupFn(fs, call, at) : fs \in FDefs, call \in FCalls, at \in 0..1}
        \cup {PDupFn(fs, call, Len(fs)) : fs \in FDefs, call \in FCalls}

\* conditions of every type an expression can have, under if and under for
Conds ==
    {Lit(1), FLit(3, 2), Id("v"), Id("u"), CallE("one", <<>>), CallE("g", <<>>)}
        \cup {Bin(l, op, r) : l \in {Lit(1), FLit(3, 2)}, r \in {Lit(1), FLit(3, 2)},
                              op \in {"Plus", "LessThan", "Equal"}}
CondMain(stmt) ==
    Program(<<>>, <<OneFn, Main(<<Decl("Float", "v", FLit(3, 2)), stmt, Ret(Lit(0))>>)>>)
PCondIf(c, withElse) ==
    CondMain(IfS(c, Block(<<>>), IF withElse THEN Block(<<>>) ELSE None))
PCondFor(c, withInit) ==
    CondMain(ForS(IF withInit THEN Decl("Int", "i", Lit(0)) ELSE None, c, None, Block(<<>>)))
CondPrograms ==
    {PCondIf(c, e) : c \in Conds, e \in BOOLEAN}
        \cup {PCondFor(c, i) : c \in Conds \cup {None}, i \in BOOLEAN}

\* a function of either return type returning an expression of any type
RetValues ==
    {None, Lit(1), FLit(3, 2), Id("u"), Bin(FLit(3, 2), "LessThan", FLit(3, 2)),
     Bin(FLit(3, 2), "Plus", FLit(3, 2)), CallE("one", <<>>)}
PRet(rt, e, inIf) ==
    Program(<<>>, <<OneFn, Func(rt, "main", <<>>,
        Block(IF inIf THEN <<IfS(Lit(1), Block(<<Ret(e)>>), None), Ret(LitOf(rt))>>
              ELSE <<Ret(e)>>))>>)
RetPrograms == {PRet(rt, e, i) : rt \in Types, e \in RetValues, i \in BOOLEAN}

AnalyzerPrograms ==
    Programs \cup {PArgs(args) : args \in ArgLists} \cup ScopePrograms
        \cup DupFnPrograms \cup CondPrograms \cup RetPrograms

Report(by, a) == [by |-> by, errors |-> a.errors, final |-> a]

InitAnalyze ==
    /\ prog \in AnalyzerPrograms
    /\ an = NewAnalyzer
    /\ reports = <<>>
    /\ items = <<>>
    /\ parsed = NoParse
    /\ text = <<>>
    /\ lexed = <<>>
    /\ tokens = <<>>
    /\ tree = NoTree
    /\ diags = <<>>
    /\ overflow_checks = FALSE
    /\ dbg = NewCompiler
    /\ code = <<>>
    /\ functions = EmptyMap
    /\ stack = <<>>
    /\ frames = <<>>
    /\ ip = 0
    /\ status = "off"
    /\ result = NoResult
    /\ hist = <<>>
    /\ source = NoSource
    /\ stage = "off"
    /\ calls = <<>>
    /\ outcome = NoOutcome
    /\ ll_file = FALSE

\* pub fn analyze(program): let mut analyzer = SemanticAnalyzer::new();
\* analyzer.analyze(program)
CallAnalyze ==
    /\ Len(reports) < MaxCalls
    /\ reports' = Append(reports, Report("analyze", analyzer_analyze(NewAnalyzer, prog)))
    /\ UNCHANGED <<prog, diags, overflow_checks, dbg, code, functions, stack, frames, ip,
                   status, result, hist, source, stage, calls, outcome, ll_file, an,
                   items, parsed, text, lexed, tokens, tree>>

\* pub fn analyze(&mut self, program) on the analyzer the caller holds
CallMethod ==
    /\ Len(reports) < MaxCalls
    /\ an' = analyzer_analyze(an, prog)
    /\ reports' = Append(reports, Report("SemanticAnalyzer::analyze", an'))
    /\ UNCHANGED <<prog, diags, overflow_checks, dbg, code, functions, stack, frames, ip,
                   status, result, hist, source, stage, calls, outcome, ll_file,
                   items, parsed, text, lexed, tokens, tree>>

NextAnalyze ==
    \/ CallAnalyze
    \/ CallMethod

SpecAnalyze == InitAnalyze /\ [][NextAnalyze]_vars

(***************************************************************************)
(* parser.rs: parse, from the top-level items that many0(parse_top_level)  *)
(* read off the tokens.  An item is an Include(header), an Extern(extern   *)
(* declaration) or a Function(definition); items is the Vec of them in     *)
(* source order, and parsed is the Program returned: its includes, its     *)
(* extern_functions, its functions (done tells it from the value before    *)
(* the call).                                                              *)
(***************************************************************************)
MaxItems == 3

IncludeItem(h) == [k |-> "Include", header |-> h]
ExternItem(e) == [k |-> "Extern", ext |-> e]
FunctionItem(f) == [k |-> "Function", function |-> f]

\* header_registry.rs: externs_for_header
externs_for_header(header) ==
    IF header = "stdio.h" THEN <<Extern("Int", "printf", <<"String">>, TRUE)>> ELSE <<>>

\* extern_functions.iter().any(|e| e.name == ext.name)
any_named(extern_functions, name) ==
    \E i \in 1..Len(extern_functions) : extern_functions[i].name = name

\* the inner loop with the test left out: every declaration is pushed
RECURSIVE add_externs_unconditionally(_, _)
add_externs_unconditionally(extern_functions, exts) ==
    IF exts = <<>> THEN extern_functions
    ELSE add_externs_unconditionally(Append(extern_functions, Head(exts)), Tail(exts))

\* for ext in externs_for_header(header) { if !any(..) { push(ext) } }
RECURSIVE add_externs(_, _)
add_externs(extern_functions, exts) ==
    IF exts = <<>> THEN extern_functions
    ELSE LET e1 == IF ~any_named(extern_functions, Head(exts).name)
                   THEN Append(extern_functions, Head(exts))
                   ELSE extern_functions
         IN Then(e1, add_externs(e1, Tail(exts)))

\* for header in &includes { ... }
RECURSIVE expand_includes(_, _)
expand_includes(includes, extern_functions) ==
    IF includes = <<>> THEN extern_functions
    ELSE LET e1 == add_externs(extern_functions, externs_for_header(Head(includes)))
         IN Then(e1, expand_includes(Tail(includes), e1))

\* for item in items { match item { ... push ... } }: the three Vecs
RECURSIVE split_items(_, _)
split_items(p, its) ==
    IF its = <<>> THEN p
    ELSE LET item == Head(its)
             p1 == CASE item.k = "Include" -> [p EXCEPT !.includes = Append(@, item.header)]
                     [] item.k = "Extern" -> [p EXCEPT !.extern_functions = Append(@, item.ext)]
                     [] item.k = "Function" -> [p EXCEPT !.functions = Append(@, item.function)]
         IN Then(p1, split_items(p1, Tail(its)))

\* parse, after many0(parse_top_level) has consumed every token
parse_items(its) ==
    LET p == split_items(NoParse, its)
    IN [includes |-> p.includes,
        extern_functions |-> expand_includes(p.includes, p.extern_functions),
        functions |-> p.functions,
        done |-> TRUE]

\* the items of the tests: #include <stdio.h> (test_duplicate_includes),
\* a header the registry does not know, explicit externs of printf with
\* another signature than the registry's and with the same, an explicit
\* extern of another name, main, and a second definition of main
OwnPrintfExt == Extern("Int", "printf", <<"Int">>, FALSE)
Items ==
    {IncludeItem("stdio.h"), IncludeItem("math.h"), ExternItem(OwnPrintfExt),
     ExternItem(PrintfExt), ExternItem(FooExt), FunctionItem(Main(<<Ret(Lit(0))>>)),
     FunctionItem(Main(<<Ret(Lit(1))>>))}
ItemLists == UNION {[1..n -> Items] : n \in 0..MaxItems}

InitParse ==
    /\ items \in ItemLists
    /\ parsed = NoParse
    /\ text = <<>>
    /\ lexed = <<>>
    /\ tokens = <<>>
    /\ tree = NoTree
    /\ prog = EmptyProgram
    /\ an = NewAnalyzer
    /\ reports = <<>>
    /\ diags = <<>>
    /\ overflow_checks = FALSE
    /\ dbg = NewCompiler
    /\ code = <<>>
    /\ functions = EmptyMap
    /\ stack = <<>>
    /\ frames = <<>>
    /\ ip = 0
    /\ status = "off"
    /\ result = NoResult
    /\ hist = <<>>
    /\ source = NoSource
    /\ stage = "off"
    /\ calls = <<>>
    /\ outcome = NoOutcome
    /\ ll_file = FALSE

Parse ==
    /\ ~parsed.done
    /\ parsed' = parse_items(items)
    /\ UNCHANGED <<prog, diags, overflow_checks, dbg, code, functions, stack, frames, ip,
                   status, result, hist, source, stage, calls, outcome, ll_file,
                   an, reports, items, text, lexed, tokens, tree>>

\* lib.rs, compile: let errors = semantic::analyze(&ast) on the Program parse
\* returned
AnalyzeParsed ==
    /\ parsed.done
    /\ reports = <<>>
    /\ reports' = <<Report("analyze",
                           analyzer_analyze(NewAnalyzer,
                               Program(parsed.extern_functions, parsed.functions)))>>
    /\ UNCHANGED <<prog, diags, overflow_checks, dbg, code, functions, stack, frames, ip,
                   status, result, hist, source, stage, calls, outcome, ll_file,
                   an, items, parsed, text, lexed, tokens, tree>>

NextParse ==
    \/ Parse
    \/ AnalyzeParsed

SpecParse == InitParse /\ [][NextParse]_vars

(***************************************************************************)
(* lexer.rs: Token.  A token is a record [k] with the name of the variant; *)
(* Identifier carries name, IntLiteral n, FloatLiteral n and d (the value  *)
(* n/d), StringLiteral s and Include header.                               *)
(***************************************************************************)
T(k) == [k |-> k]
IdentifierT(x) == [k |-> "Identifier", name |-> x]
IntLiteralT(i) == [k |-> "IntLiteral", n |-> i]
FloatLiteralT(num, den) == [k |-> "FloatLiteral", n |-> num, d |-> den]
StringLiteralT(str) == [k |-> "StringLiteral", s |-> str]
IncludeT(h) == [k |-> "Include", header |-> h]

(***************************************************************************)
(* parser.rs: the nom parsers over &[Token].  An IResult is                *)
(* [ok |-> TRUE, rest, v] for Ok((rest, v)) and Fail for Err(Err::Error);  *)
(* no parser of the file returns Err::Failure or Err::Incomplete.  The     *)
(* combinators are written out where they are used: alt takes the first    *)
(* alternative that is Ok, opt turns an Err into None without consuming,   *)
(* tuple, delimited, preceded and terminated stop at the first Err, many0  *)
(* and separated_list0 collect until an Err.                               *)
(* A parenthesised expression has no node of its own in the AST; the tree  *)
(* keeps, as history, the field paren on the Binary node that               *)
(* parse_primary_expr read between parentheses.                            *)
(***************************************************************************)
Fail == [ok |-> FALSE]
Got(rest, v) == [ok |-> TRUE, rest |-> rest, v |-> v]
OrElse(r1, r2) == IF r1.ok THEN r1 ELSE r2

\* Expr::Assignment and Literal::String, as parser.rs builds them
AssignE(x, value) == [k |-> "Assignment", name |-> x, value |-> value]
SLit(str) == [k |-> "Literal", lit |-> [t |-> "String", s |-> str]]
Parenthesised(expr) ==
    IF expr.k = "Binary"
    THEN [k |-> "Binary", left |-> expr.left, bop |-> expr.bop, right |-> expr.right,
          paren |-> TRUE]
    ELSE expr

\* fn token(expected)
token(expected, input) ==
    IF input = <<>> THEN Fail
    ELSE IF Head(input) = expected THEN Got(Tail(input), expected) ELSE Fail

\* alt over token(..) of several tokens: the first of them that matches
one_of(kinds, input) ==
    IF input = <<>> THEN Fail
    ELSE IF Head(input).k \in kinds THEN Got(Tail(input), Head(input).k) ELSE Fail

\* what K makes of the result of a parser, an Err staying an Err: the
\* parsers of a tuple in sequence, and `?`
AndThen(r, K(_)) == IF r.ok THEN K(r) ELSE Fail
\* what K makes of the result of a parser, an Err giving otherwise: opt,
\* and the end of many0 and separated_list0
Either(r, otherwise, K(_)) == IF r.ok THEN K(r) ELSE otherwise
With(r, K(_)) == K(r)

\* Token::Int => Type::Int, Token::Float => Type::Float, Token::StringType => Type::String
parse_type(input) ==
    AndThen(one_of({"Int", "Float", "StringType"}, input), LAMBDA t :
        Got(t.rest, IF t.v = "StringType" THEN "String" ELSE t.v))

parse_identifier(input) ==
    IF input = <<>> THEN Fail
    ELSE IF Head(input).k = "Identifier" THEN Got(Tail(input), Head(input).name) ELSE Fail

parse_literal(input) ==
    IF input = <<>> THEN Fail
    ELSE CASE Head(input).k = "IntLiteral" -> Got(Tail(input), Lit(Head(input).n))
           [] Head(input).k = "FloatLiteral" ->
                Got(Tail(input), FLit(Head(input).n, Head(input).d))
           [] Head(input).k = "StringLiteral" -> Got(Tail(input), SLit(Head(input).s))
           [] OTHER -> Fail

\* the ten operators, arithmetic ones included
parse_binop(input) == one_of(BinOps, input)

RECURSIVE parse_expr(_)
RECURSIVE parse_args_more(_, _)
RECURSIVE multiplicative_loop(_, _)
RECURSIVE additive_loop(_, _)

\* separated_list0(token(Comma), parse_expr) after its first element: an
\* Err of the separator or of the element ends the list before the separator
parse_args_more(input, res) ==
    Either(token(T("Comma"), input), Got(input, res), LAMBDA sep :
    Either(parse_expr(sep.rest), Got(input, res), LAMBDA e :
        parse_args_more(e.rest, Append(res, e.v))))

parse_args(input) ==
    Either(parse_expr(input), Got(input, <<>>), LAMBDA e :
        parse_args_more(e.rest, <<e.v>>))

parse_call(input) ==
    AndThen(parse_identifier(input), LAMBDA name :
    AndThen(token(T("LParen"), name.rest), LAMBDA lp :
    AndThen(parse_args(lp.rest), LAMBDA args :
    AndThen(token(T("RParen"), args.rest), LAMBDA rp :
        Got(rp.rest, CallE(name.v, args.v))))))

\* delimited(token(LParen), parse_expr, token(RParen))
parse_paren(input) ==
    AndThen(token(T("LParen"), input), LAMBDA lp :
    AndThen(parse_expr(lp.rest), LAMBDA e :
    AndThen(token(T("RParen"), e.rest), LAMBDA rp :
        Got(rp.rest, Parenthesised(e.v)))))

parse_primary_expr(input) ==
    OrElse(parse_literal(input),
           OrElse(parse_call(input),
                  OrElse(AndThen(parse_identifier(input), LAMBDA i : Got(i.rest, Id(i.v))),
                         parse_paren(input))))

multiplicative_loop(input, expr) ==
    Either(one_of({"Multiply", "Divide"}, input), Got(input, expr), LAMBDA op :
    Either(parse_primary_expr(op.rest), Got(input, expr), LAMBDA right :
        multiplicative_loop(right.rest, Bin(expr, op.v, right.v))))

parse_multiplicative(input) ==
    AndThen(parse_primary_expr(input), LAMBDA first :
        multiplicative_loop(first.rest, first.v))

additive_loop(input, expr) ==
    Either(one_of({"Plus", "Minus"}, input), Got(input, expr), LAMBDA op :
    Either(parse_multiplicative(op.rest), Got(input, expr), LAMBDA right :
        additive_loop(right.rest, Bin(expr, op.v, right.v))))

parse_additive(input) ==
    AndThen(parse_multiplicative(input), LAMBDA first :
        additive_loop(first.rest, first.v))

\* a second comparison after the first: the loop the doc comment of
\* parse_comparison describes
RECURSIVE comparison_loop(_, _)
comparison_loop(input, expr) ==
    Either(parse_binop(input), Got(input, expr), LAMBDA op :
    Either(parse_additive(op.rest), Got(input, expr), LAMBDA right :
        comparison_loop(right.rest, Bin(expr, op.v, right.v))))

\* let result = opt(tuple((parse_binop, parse_additive)))(input)?: once
comparison_once(input, expr) ==
    Either(parse_binop(input), Got(input, expr), LAMBDA op :
    Either(parse_additive(op.rest), Got(input, expr), LAMBDA right :
        Got(right.rest, Bin(expr, op.v, right.v))))

parse_comparison(input) ==
    AndThen(parse_additive(input), LAMBDA first : comparison_once(first.rest, first.v))

parse_assignment_expr(input) ==
    OrElse(AndThen(parse_identifier(input), LAMBDA name :
           AndThen(token(T("Assign"), name.rest), LAMBDA eq :
           AndThen(parse_expr(eq.rest), LAMBDA value :
               Got(value.rest, AssignE(name.v, value.v))))),
           parse_comparison(input))

parse_expr(input) == parse_assignment_expr(input)

RECURSIVE parse_stmt(_)
RECURSIVE parse_stmts(_, _)

\* opt(parse_expr)
opt_expr(input) == OrElse(parse_expr(input), Got(input, None))

parse_declaration(input) ==
    AndThen(parse_type(input), LAMBDA ty :
    AndThen(parse_identifier(ty.rest), LAMBDA name :
    AndThen(OrElse(AndThen(token(T("Assign"), name.rest), LAMBDA eq : parse_expr(eq.rest)),
                   Got(name.rest, None)), LAMBDA init :
    AndThen(token(T("Semicolon"), init.rest), LAMBDA semi :
        Got(semi.rest, Decl(ty.v, name.v, init.v))))))

parse_return(input) ==
    AndThen(token(T("Return"), input), LAMBDA ret :
    AndThen(opt_expr(ret.rest), LAMBDA e :
    AndThen(token(T("Semicolon"), e.rest), LAMBDA semi :
        Got(semi.rest, Ret(e.v)))))

\* many0(parse_stmt): an Err ends the list; a statement that consumed
\* nothing would be an Err of many0
parse_stmts(input, res) ==
    Either(parse_stmt(input), Got(input, res), LAMBDA st :
        IF Len(st.rest) = Len(input) THEN Fail
        ELSE parse_stmts(st.rest, Append(res, st.v)))

parse_block(input) ==
    AndThen(token(T("LBrace"), input), LAMBDA lb :
    AndThen(parse_stmts(lb.rest, <<>>), LAMBDA ss :
    AndThen(token(T("RBrace"), ss.rest), LAMBDA rb :
        Got(rb.rest, Block(ss.v)))))

parse_if(input) ==
    AndThen(token(T("If"), input), LAMBDA kw :
    AndThen(token(T("LParen"), kw.rest), LAMBDA lp :
    AndThen(parse_expr(lp.rest), LAMBDA cond :
    AndThen(token(T("RParen"), cond.rest), LAMBDA rp :
    AndThen(parse_stmt(rp.rest), LAMBDA then :
        OrElse(AndThen(token(T("Else"), then.rest), LAMBDA el :
               AndThen(parse_stmt(el.rest), LAMBDA st :
                   Got(st.rest, IfS(cond.v, then.v, st.v)))),
               Got(then.rest, IfS(cond.v, then.v, None))))))))

parse_expr_stmt(input) ==
    AndThen(parse_expr(input), LAMBDA e :
    AndThen(token(T("Semicolon"), e.rest), LAMBDA semi :
        Got(semi.rest, ExprS(e.v))))

\* alt((parse_declaration, parse_expr_stmt, token(Semicolon) => None))
parse_for_init(input) ==
    OrElse(parse_declaration(input),
           OrElse(parse_expr_stmt(input),
                  AndThen(token(T("Semicolon"), input), LAMBDA semi :
                      Got(semi.rest, None))))

\* opt(terminated(parse_expr, token(Semicolon)))
parse_for_cond(input) ==
    OrElse(AndThen(parse_expr(input), LAMBDA e :
           AndThen(token(T("Semicolon"), e.rest), LAMBDA semi : Got(semi.rest, e.v))),
           Got(input, None))

parse_for(input) ==
    AndThen(token(T("For"), input), LAMBDA kw :
    AndThen(token(T("LParen"), kw.rest), LAMBDA lp :
    AndThen(parse_for_init(lp.rest), LAMBDA init :
    AndThen(parse_for_cond(init.rest), LAMBDA cond :
    AndThen(opt_expr(cond.rest), LAMBDA update :
    AndThen(token(T("RParen"), update.rest), LAMBDA rp :
    AndThen(parse_stmt(rp.rest), LAMBDA body :
        Got(body.rest, ForS(init.v, cond.v, update.v, body.v)))))))))

parse_stmt(input) ==
    OrElse(parse_declaration(input),
           OrElse(parse_return(input),
                  OrElse(parse_if(input),
                         OrElse(parse_for(input),
                                OrElse(parse_block(input), parse_expr_stmt(input))))))

parse_param(input) ==
    AndThen(parse_type(input), LAMBDA ty :
    AndThen(parse_identifier(ty.rest), LAMBDA name :
        Got(name.rest, Param(ty.v, name.v))))

\* separated_list0(token(Comma), parse_param)
RECURSIVE parse_params_more(_, _)
parse_params_more(input, res) ==
    Either(AndThen(token(T("Comma"), input), LAMBDA sep : parse_param(sep.rest)),
           Got(input, res), LAMBDA p :
        parse_params_more(p.rest, Append(res, p.v)))

parse_params(input) ==
    Either(parse_param(input), Got(input, <<>>), LAMBDA p :
        parse_params_more(p.rest, <<p.v>>))

\* the loop of parse_extern_param_list; v is (types, is_variadic)
RECURSIVE parse_extern_param_list(_, _)
parse_extern_param_list(input, types) ==
    Either(parse_type(input),
           IF input # <<>> /\ Head(input) = T("Ellipsis")
           THEN Got(Tail(input), [types |-> types, is_variadic |-> TRUE])
           ELSE Fail,
           LAMBDA ty :
               IF ty.rest # <<>> /\ Head(ty.rest) = T("Comma")
               THEN parse_extern_param_list(Tail(ty.rest), Append(types, ty.v))
               ELSE Got(ty.rest, [types |-> Append(types, ty.v), is_variadic |-> FALSE]))

parse_extern_function(input) ==
    AndThen(token(T("Extern"), input), LAMBDA kw :
    AndThen(parse_type(kw.rest), LAMBDA ty :
    AndThen(parse_identifier(ty.rest), LAMBDA name :
    AndThen(token(T("LParen"), name.rest), LAMBDA lp :
    AndThen(parse_extern_param_list(lp.rest, <<>>), LAMBDA ps :
    AndThen(token(T("RParen"), ps.rest), LAMBDA rp :
    AndThen(token(T("Semicolon"), rp.rest), LAMBDA semi :
        Got(semi.rest, Extern(ty.v, name.v, ps.v.types, ps.v.is_variadic)))))))))

parse_include(input) ==
    IF input = <<>> THEN Fail
    ELSE IF Head(input).k = "Include" THEN Got(Tail(input), Head(input).header) ELSE Fail

parse_function(input) ==
    AndThen(parse_type(input), LAMBDA ty :
    AndThen(parse_identifier(ty.rest), LAMBDA name :
    AndThen(token(T("LParen"), name.rest), LAMBDA lp :
    AndThen(parse_params(lp.rest), LAMBDA ps :
    AndThen(token(T("RParen"), ps.rest), LAMBDA rp :
    AndThen(parse_block(rp.rest), LAMBDA body :
        Got(body.rest, Func(ty.v, name.v, ps.v, body.v))))))))

parse_top_level(input) ==
    OrElse(AndThen(parse_include(input), LAMBDA inc : Got(inc.rest, IncludeItem(inc.v))),
           OrElse(AndThen(parse_extern_function(input), LAMBDA ext :
                      Got(ext.rest, ExternItem(ext.v))),
                  AndThen(parse_function(input), LAMBDA fn :
                      Got(fn.rest, FunctionItem(fn.v)))))

\* many0(parse_top_level) going on behind an item it could not parse: it
\* drops tokens up to the next one that starts an item
RECURSIVE top_levels_resync(_, _)
top_levels_resync(input, res) ==
    Either(parse_top_level(input),
           IF input = <<>> THEN Got(input, res) ELSE top_levels_resync(Tail(input), res),
           LAMBDA item : top_levels_resync(item.rest, Append(res, item.v)))

\* many0(parse_top_level)
RECURSIVE top_levels(_, _)
top_levels(input, res) ==
    Either(parse_top_level(input), Got(input, res), LAMBDA item :
        IF Len(item.rest) = Len(input) THEN Fail
        ELSE top_levels(item.rest, Append(res, item.v)))

\* pub fn parse(tokens): kind "Ok" with the Program, or "Err" with the
\* message (the Debug text of the tokens left is kept as the tokens); its
\* field items is history: the items many0 read
parse(toks) ==
    With(top_levels(toks, <<>>), LAMBDA m :
        IF ~m.ok
        THEN [kind |-> "Err", msg |-> "Parse error: ", remaining |-> toks, items |-> <<>>]
        ELSE IF m.rest # <<>>
        THEN [kind |-> "Err", msg |-> "Unexpected tokens at end: ", remaining |-> m.rest,
              items |-> m.v]
        ELSE [kind |-> "Ok", program |-> parse_items(m.v), items |-> m.v])

(***************************************************************************)
(* The token slices parse is called on: the sources of the tests of        *)
(* parser.rs, lexer.rs and integration_tests.rs, written word by word,     *)
(* returns of two operators over three operands with and without           *)
(* parentheses, and every slice with one token dropped.                    *)
(***************************************************************************)
Fixed ==
    [int |-> "Int", float |-> "Float", string |-> "StringType", if |-> "If",
     else |-> "Else", for |-> "For", return |-> "Return", extern |-> "Extern",
     le |-> "LessEqual", ge |-> "GreaterEqual", eq |-> "Equal", ne |-> "NotEqual",
     lt |-> "LessThan", gt |-> "GreaterThan", assign |-> "Assign", plus |-> "Plus",
     minus |-> "Minus", star |-> "Multiply", slash |-> "Divide", semi |-> "Semicolon",
     comma |-> "Comma", lp |-> "LParen", rp |-> "RParen", lb |-> "LBrace",
     rb |-> "RBrace", dots |-> "Ellipsis"]
Numerals == [zero |-> 0, one |-> 1, five |-> 5, ten |-> 10]

\* the token a word stands for: a keyword, operator or punctuation mark by
\* its name, a numeral, a header, a string literal, or else an identifier
Word(w) ==
    IF w \in DOMAIN Fixed THEN T(Fixed[w])
    ELSE IF w \in DOMAIN Numerals THEN IntLiteralT(Numerals[w])
    ELSE IF w = "stdio.h" THEN IncludeT(w)
    ELSE IF w = "half" THEN FloatLiteralT(1, 2)
    ELSE IF w = "Hi" THEN StringLiteralT(w)
    ELSE IdentifierT(w)
Words(ws) == [i \in 1..Len(ws) |-> Word(ws[i])]

MainOf(body) == <<"int", "main", "lp", "rp", "lb">> \o body \o <<"rb">>
OpWord == [Plus |-> "plus", Minus |-> "minus", Multiply |-> "star", Divide |-> "slash",
           Equal |-> "eq", NotEqual |-> "ne", LessThan |-> "lt", GreaterThan |-> "gt",
           LessEqual |-> "le", GreaterEqual |-> "ge"]

\* test_parse_function
SrcAdd ==
    <<"int", "add", "lp", "int", "a", "comma", "int", "b", "rp", "lb",
      "return", "a", "plus", "b", "semi", "rb">> \o MainOf(<<"return", "zero", "semi">>)
\* test_parse_extern_function_variadic, test_parse_include, a call with a
\* string and a float
SrcExtern ==
    <<"stdio.h", "extern", "int", "printf", "lp", "string", "comma", "dots", "rp", "semi",
      "extern", "float", "sqrt", "lp", "float", "rp", "semi">>
        \o MainOf(<<"printf", "lp", "Hi", "comma", "sqrt", "lp", "half", "rp", "rp", "semi",
                    "return", "zero", "semi">>)
\* test_compile_and_run_control_flow
SrcIf ==
    MainOf(<<"int", "a", "assign", "ten", "semi",
             "if", "lp", "a", "gt", "five", "rp", "lb", "return", "one", "semi", "rb",
             "else", "lb", "return", "zero", "semi", "rb">>)
\* test_for_loop of lexer.rs, in a function
SrcFor ==
    MainOf(<<"int", "x", "semi",
             "for", "lp", "int", "i", "assign", "zero", "semi", "i", "lt", "ten", "semi",
             "i", "assign", "i", "plus", "one", "rp",
             "lb", "x", "assign", "x", "plus", "i", "semi", "rb",
             "return", "x", "semi">>)
\* a for without init, condition and update
SrcForEmpty == MainOf(<<"for", "lp", "semi", "semi", "rp", "lb", "rb", "return", "zero", "semi">>)

\* return a op1 b op2 c; as written, as (a op1 b) op2 c, as a op1 (b op2 c),
\* and with the first comparison as the argument of a call
SrcOps(o1, o2, form) ==
    MainOf(<<"return">> \o
           (CASE form = "plain" -> <<"a", OpWord[o1], "b", OpWord[o2], "c">>
              [] form = "left" -> <<"lp", "a", OpWord[o1], "b", "rp", OpWord[o2], "c">>
              [] form = "right" -> <<"a", OpWord[o1], "lp", "b", OpWord[o2], "c", "rp">>
              [] form = "call" -> <<"f", "lp", "a", OpWord[o1], "b", "rp", OpWord[o2], "c">>)
           \o <<"semi">>)
Forms == {"plain", "left", "right", "call"}

SourceWords ==
    {SrcAdd, SrcExtern, SrcIf, SrcFor, SrcForEmpty}
Dropped(ws, i) == SubSeq(ws, 1, i - 1) \o SubSeq(ws, i + 1, Len(ws))
TokenSlices ==
    {Words(ws) : ws \in SourceWords}
        \cup UNION {{Words(Dropped(ws, i)) : i \in 1..Len(ws)} : ws \in SourceWords}
        \cup {Words(SrcOps(o1, o2, form)) : o1 \in BinOps, o2 \in BinOps, form \in Forms}
        \cup {Words(ws \o SrcAdd) : ws \in {<<"rb">>, <<"semi">>, <<"int", "g", "lp", "semi">>}}

InitSyntax ==
    /\ tokens \in TokenSlices
    /\ tree = NoTree
    /\ text = <<>>
    /\ lexed = <<>>
    /\ items = <<>>
    /\ parsed = NoParse
    /\ prog = EmptyProgram
    /\ an = NewAnalyzer
    /\ reports = <<>>
    /\ diags = <<>>
    /\ overflow_checks = FALSE
    /\ dbg = NewCompiler
    /\ code = <<>>
    /\ functions = EmptyMap
    /\ stack = <<>>
    /\ frames = <<>>
    /\ ip = 0
    /\ status = "off"
    /\ result = NoResult
    /\ hist = <<>>
    /\ source = NoSource
    /\ stage = "off"
    /\ calls = <<>>
    /\ outcome = NoOutcome
    /\ ll_file = FALSE

\* parser::parse(&tokens)
ParseTokens ==
    /\ tree.kind = "None"
    /\ tree' = parse(tokens)
    /\ UNCHANGED <<prog, diags, overflow_checks, dbg, code, functions, stack, frames, ip,
                   status, result, hist, source, stage, calls, outcome, ll_file,
                   an, reports, items, parsed, text, lexed, tokens>>

NextSyntax == ParseTokens

SpecSyntax == InitSyntax /\ [][NextSyntax]_vars

(***************************************************************************)
(* lexer.rs: lex.  A text is the sequence of its characters, each a        *)
(* one-character string; a character that has no TLA+ string of its own    *)
(* is written "U+" and its code.  Where lex builds a String (the name of   *)
(* an Identifier, the value of a StringLiteral, the header of an Include)  *)
(* the String is the sequence of its characters.  i64 has IntBits bits;    *)
(* the f64 of a float literal is the rational it denotes (rounding and     *)
(* overflow to infinity are not modelled).                                 *)
(***************************************************************************)
Lower == {"a", "b", "c", "d", "e", "f", "g", "h", "i", "j", "k", "l", "m", "n", "o", "p", "q", "r", "s", "t", "u", "v", "w", "x", "y", "z"}
Upper == {"A", "B", "C", "D", "E", "F", "G", "H", "I", "J", "K", "L", "M", "N", "O", "P", "Q", "R", "S", "T", "U", "V", "W", "X", "Y", "Z"}
Digit == {"0", "1", "2", "3", "4", "5", "6", "7", "8", "9"}
\* [a-zA-Z_] and [a-zA-Z0-9_]
IdentStart == Lower \cup Upper \cup {"_"}
IdentPart == IdentStart \cup Digit
\* #[logos(skip r"[ \t\n\f]+")], and \s of the Include pattern
Skipped == {" ", "\t", "\n", "\f"}
Whitespace == Skipped \cup {"\r"}
\* char::to_digit(16)
HexVal ==
    ("0" :> 0) @@ ("1" :> 1) @@ ("2" :> 2) @@ ("3" :> 3) @@ ("4" :> 4) @@ ("5" :> 5) @@ ("6" :> 6) @@ ("7" :> 7) @@ ("8" :> 8) @@ ("9" :> 9)
    @@ ("a" :> 10) @@ ("b" :> 11) @@ ("c" :> 12) @@ ("d" :> 13) @@ ("e" :> 14) @@ ("f" :> 15)
    @@ ("A" :> 10) @@ ("B" :> 11) @@ ("C" :> 12) @@ ("D" :> 13) @@ ("E" :> 14) @@ ("F" :> 15)
\* (code as u8) as char, for the codes of characters the texts use
Ascii ==
    (9 :> "\t") @@ (10 :> "\n") @@ (13 :> "\r") @@ (34 :> "\"") @@ (39 :> "'") @@ (92 :> "\\") @@ (48 :> "0")
    @@ (49 :> "1") @@ (50 :> "2") @@ (51 :> "3") @@ (52 :> "4") @@ (53 :> "5") @@ (54 :> "6") @@ (55 :> "7")
    @@ (56 :> "8") @@ (57 :> "9") @@ (65 :> "A") @@ (66 :> "B") @@ (67 :> "C") @@ (68 :> "D") @@ (69 :> "E")
    @@ (70 :> "F") @@ (97 :> "a") @@ (98 :> "b") @@ (99 :> "c") @@ (100 :> "d") @@ (101 :> "e") @@ (102 :> "f")
CharOf(n) == IF n \in DOMAIN Ascii THEN Ascii[n] ELSE "U+" \o ToString(n)
\* #[token("int")] Int, ... : the keywords
Keywords ==
    (<<"i", "n", "t">> :> "Int")
    @@ (<<"f", "l", "o", "a", "t">> :> "Float")
    @@ (<<"s", "t", "r", "i", "n", "g">> :> "StringType")
    @@ (<<"i", "f">> :> "If")
    @@ (<<"e", "l", "s", "e">> :> "Else")
    @@ (<<"f", "o", "r">> :> "For")
    @@ (<<"r", "e", "t", "u", "r", "n">> :> "Return")
    @@ (<<"e", "x", "t", "e", "r", "n">> :> "Extern")
\* #[token("<=")] LessEqual, ... : operators and punctuation
Operators ==
    (<<"<", "=">> :> "LessEqual")
    @@ (<<">", "=">> :> "GreaterEqual")
    @@ (<<"=", "=">> :> "Equal")
    @@ (<<"!", "=">> :> "NotEqual")
    @@ (<<"<">> :> "LessThan")
    @@ (<<">">> :> "GreaterThan")
    @@ (<<"=">> :> "Assign")
    @@ (<<"+">> :> "Plus")
    @@ (<<"-">> :> "Minus")
    @@ (<<"*">> :> "Multiply")
    @@ (<<"/">> :> "Divide")
    @@ (<<";">> :> "Semicolon")
    @@ (<<",">> :> "Comma")
    @@ (<<"(">> :> "LParen")
    @@ (<<")">> :> "RParen")
    @@ (<<"{">> :> "LBrace")
    @@ (<<"}">> :> "RBrace")
    @@ (<<".", ".", ".">> :> "Ellipsis")
IncludeWord == <<"#", "i", "n", "c", "l", "u", "d", "e">>

RECURSIVE Span(_, _)
\* how many characters at the start of s are in set
Span(s, set) == IF s = <<>> \/ Head(s) \notin set THEN 0 ELSE 1 + Span(Tail(s), set)
RECURSIVE SpanNot(_, _)
\* how many characters at the start of s are not in set
SpanNot(s, set) == IF s = <<>> \/ Head(s) \in set THEN 0 ELSE 1 + SpanNot(Tail(s), set)
Drop(s, n) == SubSeq(s, n + 1, Len(s))
Take(s, n) == SubSeq(s, 1, n)
StartsWith(s, p) == Len(s) >= Len(p) /\ Take(s, Len(p)) = p
Max(a, b) == IF a >= b THEN a ELSE b

RECURSIVE unescape_from(_)
\* unescape_c_string: the characters pushed to out from here on
unescape_from(s) ==
    IF s = <<>> THEN <<>>
    ELSE IF Head(s) # "\\" THEN <<Head(s)>> \o unescape_from(Tail(s))
    ELSE IF Len(s) = 1 THEN <<"\\">>
    ELSE LET c == s[2]
             rest == Drop(s, 2)
         IN CASE c = "n" -> <<"\n">> \o unescape_from(rest)
              [] c = "t" -> <<"\t">> \o unescape_from(rest)
              [] c = "r" -> <<"\r">> \o unescape_from(rest)
              [] c = "'" -> <<"'">> \o unescape_from(rest)
              [] c = "\"" -> <<"\"">> \o unescape_from(rest)
              [] c = "0" -> <<CharOf(0)>> \o unescape_from(rest)
              [] c = "x" ->
                   IF Len(rest) >= 2
                   THEN (IF rest[1] \in DOMAIN HexVal /\ rest[2] \in DOMAIN HexVal
                         THEN <<CharOf((HexVal[rest[1]] * 16 + HexVal[rest[2]]) % 256)>>
                         ELSE <<"x", rest[1], rest[2]>>) \o unescape_from(Drop(rest, 2))
                   ELSE IF Len(rest) = 1
                   THEN (IF rest[1] \in DOMAIN HexVal
                         THEN <<CharOf(HexVal[rest[1]])>>
                         ELSE <<"x", rest[1]>>)
                   ELSE <<>>
              [] OTHER -> <<c>> \o unescape_from(rest)

\* the body of the literal taken as it stands, escapes and all
unescape_nothing(s) == s

unescape_c_string(s) == unescape_from(s)

RECURSIVE DecValue(_, _)
\* str::parse of a run of decimal digits
DecValue(s, acc) ==
    IF s = <<>> THEN acc ELSE DecValue(Tail(s), acc * 10 + HexVal[Head(s)])

RECURSIVE string_end(_, _)
\* r#""([^"\\]|\\.)*""#: the index in s of the closing quote of the literal
\* that opens at s[1], from index i on; 0 if there is none
string_end(s, i) ==
    IF i > Len(s) THEN 0
    ELSE IF s[i] = "\"" THEN i
    ELSE IF s[i] = "\\"
         THEN (IF i + 1 > Len(s) \/ s[i + 1] = "\n" THEN 0 ELSE string_end(s, i + 2))
    ELSE string_end(s, i + 1)

\* r"\d+\.\d+": the length of the float literal at the start of s, or 0
float_len(s) ==
    LET whole == Span(s, Digit)
        frac == IF whole > 0 /\ Len(s) > whole /\ s[whole + 1] = "."
                THEN Span(Drop(s, whole + 1), Digit) ELSE 0
    IN IF frac > 0 THEN whole + 1 + frac ELSE 0

\* r"#include\s*<[^>]+>": the length of the directive at the start of s, or 0
include_len(s) ==
    IF ~StartsWith(s, IncludeWord) THEN 0
    ELSE LET ws == Span(Drop(s, Len(IncludeWord)), Whitespace)
             open == Len(IncludeWord) + ws + 1
             name == IF Len(s) >= open /\ s[open] = "<" THEN SpanNot(Drop(s, open), {">"}) ELSE 0
         IN IF name > 0 /\ Len(s) > open + name THEN open + name + 1 ELSE 0

\* the longest operator or punctuation mark at the start of s, or 0
operator_len(s) ==
    IF Len(s) >= 3 /\ Take(s, 3) \in DOMAIN Operators THEN 3
    ELSE IF Len(s) >= 2 /\ Take(s, 2) \in DOMAIN Operators THEN 2
    ELSE IF Len(s) >= 1 /\ Take(s, 1) \in DOMAIN Operators THEN 1
    ELSE 0

\* the callbacks: the token of a slice that a pattern matched
word_token(slice) ==
    IF slice \in DOMAIN Keywords THEN T(Keywords[slice]) ELSE IdentifierT(slice)
float_token(slice) ==
    LET whole == Span(slice, Digit)
        frac == Drop(slice, whole + 1)
        v == FloatV(DecValue(Take(slice, whole) \o frac, 0), 10 ^ Len(frac))
    IN FloatLiteralT(v.n, v.d)
string_token(slice) == StringLiteralT(unescape_c_string(SubSeq(slice, 2, Len(slice) - 1)))
include_token(slice) ==
    LET start == 1 + SpanNot(slice, {"<"})
        end == SpanNot(slice, {">"})
    IN IncludeT(SubSeq(slice, start + 1, end))

\* one step of the logos lexer on a non-empty s: the longest match of a
\* pattern at the start of s; a keyword wins over the identifier of the
\* same length.  k is "skip", "tok", "err" (no pattern matches) or "panic"
\* (the unwrap of parse::<i64> on a literal that does not fit)
next_token(s) ==
    LET space == Span(s, Skipped)
        comment == IF StartsWith(s, <<"/", "/">>) THEN 2 + SpanNot(Drop(s, 2), {"\n"}) ELSE 0
        word == IF Head(s) \in IdentStart THEN 1 + Span(Tail(s), IdentPart) ELSE 0
        int == Span(s, Digit)
        float == float_len(s)
        string == IF Head(s) = "\"" THEN string_end(s, 2) ELSE 0
        include == include_len(s)
        operator == operator_len(s)
        longest == Max(space, Max(comment, Max(word, Max(int, Max(float,
                       Max(string, Max(include, operator)))))))
    IN IF longest = 0 THEN [k |-> "err"]
       ELSE IF longest \in {space, comment} THEN [k |-> "skip", len |-> longest]
       ELSE IF longest = word
            THEN [k |-> "tok", len |-> longest, tok |-> word_token(Take(s, longest))]
       ELSE IF longest = float
            THEN [k |-> "tok", len |-> longest, tok |-> float_token(Take(s, longest))]
       ELSE IF longest = int
            THEN (IF DecValue(Take(s, longest), 0) > IntMax THEN [k |-> "panic"]
                  ELSE [k |-> "tok", len |-> longest,
                        tok |-> IntLiteralT(DecValue(Take(s, longest), 0))])
       ELSE IF longest = string
            THEN [k |-> "tok", len |-> longest, tok |-> string_token(Take(s, longest))]
       ELSE IF longest = include
            THEN [k |-> "tok", len |-> longest, tok |-> include_token(Take(s, longest))]
       ELSE [k |-> "tok", len |-> longest, tok |-> T(Operators[Take(s, longest)])]

RECURSIVE lex_from(_, _)
\* for token in lexer { match token { Ok(t) => tokens.push(t), Err(_) => return Err } }
lex_from(s, toks) ==
    IF s = <<>> THEN [kind |-> "Ok", tokens |-> toks]
    ELSE LET m == next_token(s)
         IN CASE m.k = "err" -> [kind |-> "Err"]
              [] m.k = "panic" -> [kind |-> "Panic"]
              [] m.k = "skip" -> lex_from(Drop(s, m.len), toks)
              [] m.k = "tok" -> lex_from(Drop(s, m.len), Append(toks, m.tok))

\* pub fn lex(input)
lex(input) == lex_from(input, <<>>)

(***************************************************************************)
(* The texts lex is called on: the lexemes of the tests of lexer.rs and    *)
(* others of every pattern (with escapes, with leading zeros, too large    *)
(* for i64, unterminated, unknown to the lexer), alone and two in a row,   *)
(* with a space between them and without.                                  *)
(***************************************************************************)
Lexemes ==
    {<<"i", "n", "t">>,
     <<"i", "n", "t", "x">>,
     <<"x">>,
     <<"_", "a", "1">>,
     <<"i", "f">>,
     <<"0">>,
     <<"7">>,
     <<"0", "0", "7">>,
     <<"1", "5">>,
     <<"1", "6">>,
     <<"9", "9">>,
     <<"1", ".", "5">>,
     <<"1", ".", "0">>,
     <<"0", ".", "2", "5">>,
     <<"1", ".">>,
     <<".">>,
     <<".", ".", ".">>,
     <<"<">>,
     <<"<", "=">>,
     <<"=">>,
     <<"=", "=">>,
     <<"!">>,
     <<"!", "=">>,
     <<"/">>,
     <<"/", "/", " ", "c", "\n">>,
     <<"/", "/", "c">>,
     <<"\"", "h", "i", "\"">>,
     <<"\"", "a", "\\", "\"", "b", "\"">>,
     <<"\"", "a", "\\", "\\", "\"">>,
     <<"\"", "\\", "n", "\"">>,
     <<"\"", "\\", "x", "4", "1", "\"">>,
     <<"\"", "\\", "x", "4", "\"">>,
     <<"\"", "\\", "x", "Z", "1", "\"">>,
     <<"\"", "\\", "q", "\"">>,
     <<"\"", "\\", "0", "\"">>,
     <<"\"", "a", "b">>,
     <<"\"", "a", "\n", "b", "\"">>,
     <<"\"", "\\">>,
     <<"#", "i", "n", "c", "l", "u", "d", "e", " ", "<", "s", "t", "d", "i", "o", ".", "h", ">">>,
     <<"#", "i", "n", "c", "l", "u", "d", "e", "<", "a", " ", "b", ">">>,
     <<"#", "i", "n", "c", "l", "u", "d", "e">>,
     <<"#", "i", "n", "c", "l", "u", "d", "e", " ", "<", ">">>,
     <<"@">>,
     <<"\r">>,
     <<"(">>,
     <<";">>,
     <<"\t">>}
Texts ==
    Lexemes \cup {a \o sep \o b : a \in Lexemes, b \in Lexemes, sep \in {<<>>, <<" ">>}}

(***************************************************************************)
(* The canonical text of a token (section 4.1 and the round trip of the    *)
(* specification): the keyword or operator itself, the name, the decimal   *)
(* digits of an integer, the digits of a float with a point and at least   *)
(* one digit behind it, the string between quotes with a backslash before  *)
(* every quote and backslash, #include <header>; the tokens of a sequence  *)
(* are separated by single spaces.                                         *)
(***************************************************************************)
RECURSIVE DecDigits(_)
DecDigits(n) ==
    IF n < 10 THEN <<CharOf(48 + n)>> ELSE DecDigits(n \div 10) \o <<CharOf(48 + (n % 10))>>
RECURSIVE FracDigits(_, _)
\* the digits of r/d behind the point, for 0 <= r < d
FracDigits(r, d) ==
    LET digit == (r * 10) \div d
        left == (r * 10) % d
    IN <<CharOf(48 + digit)>> \o (IF left = 0 THEN <<>> ELSE FracDigits(left, d))
RECURSIVE Escaped(_)
Escaped(s) ==
    IF s = <<>> THEN <<>>
    ELSE (IF Head(s) \in {"\"", "\\"} THEN <<"\\", Head(s)>> ELSE <<Head(s)>>)
             \o Escaped(Tail(s))
Spelling(k) ==
    CHOOSE w \in DOMAIN Keywords \cup DOMAIN Operators :
        (Keywords @@ Operators)[w] = k
Rendered(t) ==
    CASE t.k = "Identifier" -> t.name
      [] t.k = "IntLiteral" -> DecDigits(t.n)
      [] t.k = "FloatLiteral" -> DecDigits(t.n \div t.d) \o <<".">> \o FracDigits(t.n % t.d, t.d)
      [] t.k = "StringLiteral" -> <<"\"">> \o Escaped(t.s) \o <<"\"">>
      [] t.k = "Include" -> IncludeWord \o <<" ", "<">> \o t.header \o <<">">>
      [] OTHER -> Spelling(t.k)
RECURSIVE RenderedAll(_)
RenderedAll(toks) ==
    IF toks = <<>> THEN <<>>
    ELSE IF Len(toks) = 1 THEN Rendered(toks[1])
    ELSE Rendered(toks[1]) \o <<" ">> \o RenderedAll(Tail(toks))

\* one call of lex: its argument and what it returned
LexCall(input) == [input |-> input, out |-> lex(input)]

InitLex ==
    /\ text \in Texts
    /\ lexed = <<>>
    /\ tokens = <<>>
    /\ tree = NoTree
    /\ items = <<>>
    /\ parsed = NoParse
    /\ prog = EmptyProgram
    /\ an = NewAnalyzer
    /\ reports = <<>>
    /\ diags = <<>>
    /\ overflow_checks = FALSE
    /\ dbg = NewCompiler
    /\ code = <<>>
    /\ functions = EmptyMap
    /\ stack = <<>>
    /\ frames = <<>>
    /\ ip = 0
    /\ status = "off"
    /\ result = NoResult
    /\ hist = <<>>
    /\ source = NoSource
    /\ stage = "off"
    /\ calls = <<>>
    /\ outcome = NoOutcome
    /\ ll_file = FALSE

\* lex(text)
LexText ==
    /\ Cardinality({i \in 1..Len(lexed) : lexed[i].input = text}) < MaxCalls
    /\ \A i \in 1..Len(lexed) : lexed[i].out.kind # "Panic"
    /\ lexed' = Append(lexed, LexCall(text))
    /\ UNCHANGED <<prog, diags, overflow_checks, dbg, code, functions, stack, frames, ip,
                   status, result, hist, source, stage, calls, outcome, ll_file,
                   an, reports, items, parsed, text, tokens, tree>>

\* lex of the canonical text of the tokens that lex(text) returned
LexRendered ==
    /\ lexed # <<>>
    /\ lexed[1].out.kind = "Ok"
    /\ LET again == RenderedAll(lexed[1].out.tokens)
       IN /\ again # text
          /\ \A i \in 1..Len(lexed) : lexed[i].input # again
          /\ lexed' = Append(lexed, LexCall(again))
    /\ UNCHANGED <<prog, diags, overflow_checks, dbg, code, functions, stack, frames, ip,
                   status, result, hist, source, stage, calls, outcome, ll_file,
                   an, reports, items, parsed, text, tokens, tree>>

NextLex ==
    \/ LexText
    \/ LexRendered

SpecLex == InitLex /\ [][NextLex]_vars

(***************************************************************************)
(* What the properties read.                                               *)
(***************************************************************************)
\* the function definition of a name (the first one, as the analyzer keeps it)
FunctionNamed(f) ==
    LET fs == prog.functions
        i == CHOOSE j \in 1..Len(fs) : fs[j].name = f /\ \A k \in 1..(j - 1) : fs[k].name # f
    IN fs[i]
IsDefined(f) == \E j \in 1..Len(prog.functions) : prog.functions[j].name = f
DistinctParams(ps) == \A i, j \in 1..Len(ps) : ps[i].name = ps[j].name => i = j

\* the VM is about to execute instruction i
At(i) == Running /\ ip = i /\ ip < Len(code)
Stopped == status \notin {"new", "running"}

\* how often d occurs in the sequence s
Count(s, d) == Cardinality({i \in 1..Len(s) : s[i] = d})

(***************************************************************************)
(* C7.                                                                     *)
(***************************************************************************)
\* the last statement of the function's body is a return statement
BodyEndsInReturn(function) ==
    /\ function.body.k = "Block"
    /\ function.body.stmts # <<>>
    /\ Last(function.body.stmts).k = "Return"

\* C7: in the output of Compiler::compile every function of the program owns
\* a span of instructions that starts at its recorded entry index, is not
\* empty and ends with a Return instruction; the span of a function whose
\* body does not end in a return ends with LoadConst(Int(0)); Return.
C7_EveryFunctionOwnsSpanEndingInReturn ==
    \A i \in 1..Len(dbg.spans) :
        LET s == dbg.spans[i]
        IN /\ functions[s.name] = s.entry
           /\ s.entry < s.end
           /\ code[s.end].op = "Return"
           /\ ~BodyEndsInReturn(prog.functions[i]) =>
                 /\ s.end - s.entry >= 2
                 /\ code[s.end - 1] = LoadConst(IntV(0))

(***************************************************************************)
(* C5.                                                                     *)
(***************************************************************************)
\* C5: for a program accepted by analyze, VM::run never panics: every
\* instruction continues or makes run return Ok or Err.
C5_AcceptedNeverPanics == Accepted => status # "panic"

(***************************************************************************)
(* C1.                                                                     *)
(***************************************************************************)
\* the activation on top was made by a call f(a1..an) of a defined function
\* with n distinct parameters
C1_Case ==
    /\ Running /\ Len(frames) >= 2
    /\ IsDefined(Last(hist).name)
    /\ DistinctParams(FunctionNamed(Last(hist).name).params)
    /\ code[Last(hist).site + 1].argc = Len(FunctionNamed(Last(hist).name).params)

\* C1: for a call f(a1..an) of a defined function with distinct parameters
\* p1..pn, once the prologue has run each pi is bound to the value of ai in
\* the callee's frame and the n argument values are off the operand stack;
\* when the callee executes its Return the operand stack is what the caller
\* had below the arguments plus exactly one value.
C1_CallingConvention ==
    C1_Case =>
        LET h == Last(hist)
            ps == FunctionNamed(h.name).params
            n == Len(ps)
            below == SubSeq(h.stack, 1, Len(h.stack) - n)
            entry == functions[h.name]
        IN /\ (ip = entry + n /\ ip < Len(code) /\ h.cnt[ip] = 0) =>
                 /\ stack = below
                 /\ \A i \in 1..n :
                       /\ ps[i].name \in DOMAIN Last(frames).locals
                       /\ Last(frames).locals[ps[i].name] = h.stack[Len(h.stack) - n + i]
           /\ (ip < Len(code) /\ Op.op = "Return") =>
                 /\ stack # <<>>
                 /\ Front(stack) = below

(***************************************************************************)
(* C2.                                                                     *)
(***************************************************************************)
C2_Step ==
    \* no step modifies a frame below the top one
    /\ \A i \in 1..Min(Len(frames), Len(frames')) :
          (i < Len(frames) \/ Len(frames') # Len(frames)) => frames'[i] = frames[i]
    \* a Call gives the callee locals of its own
    /\ Len(frames') = Len(frames) + 1 => Last(frames').locals = EmptyMap
    \* a Return into a caller finds the caller as the Call left it
    /\ (Len(frames') = Len(frames) - 1 /\ frames' # <<>>) =>
          /\ Last(frames').locals = Last(hist).locals
          /\ ip' = Last(hist).site + 1

\* C2: every step leaves the frames below the top one unmodified, a Call
\* starts the callee with empty locals of its own, and after a Return the
\* caller's locals are what they were at the Call and ip is the instruction
\* after the Call; nested and self-recursive calls included.
C2_FrameIsolation == [][C2_Step]_vars

\* a recursive activation has just been returned into by its own recursive
\* call, and the two activations below it bind the parameter differently
C2_ReturnedIntoRecursion ==
    /\ Running /\ Len(frames) >= 3 /\ ip > 0 /\ ip < Len(code)
    /\ code[ip].op = "Call" /\ code[ip].name = Last(hist).name
    /\ Last(hist).cnt[ip - 1] > 0 /\ Last(hist).cnt[ip] = 0
    /\ hist[Len(hist) - 1].name = Last(hist).name
    /\ "n" \in DOMAIN Last(frames).locals
    /\ "n" \in DOMAIN frames[Len(frames) - 1].locals
    /\ Last(frames).locals["n"] # frames[Len(frames) - 1].locals["n"]

(***************************************************************************)
(* C3.                                                                     *)
(***************************************************************************)
\* Int 0, Float 0 and Void
Falsy(v) == v = IntV(0) \/ (v.t = "Float" /\ v.n = 0 /\ v.d # 0) \/ v = Void

InRange(i, lo, hi) == lo <= i /\ i < hi
\* a step of one activation after which run goes on
StepInside == Running /\ Len(frames') = Len(frames) /\ status' = "running"

\* r is the compiler's record of one If: the condition is code[cond_start..jif),
\* the then branch with its closing Jump is [jif + 1, else_start), the else
\* branch is [else_start, end)
C3_IfStep(r) ==
    /\ (At(r.jif) /\ stack # <<>>) =>
          ip' = IF Falsy(Last(stack)) THEN r.else_start ELSE r.jif + 1
    /\ ~r.has_else => r.else_start = r.end
    /\ At(r.jump_end) => ip' = r.end
    /\ StepInside =>
          /\ (InRange(ip', r.jif + 1, r.else_start) /\ ~InRange(ip, r.jif + 1, r.else_start)) =>
                (ip = r.jif /\ ~Falsy(Last(stack)))
          /\ (InRange(ip', r.else_start, r.end) /\ ~InRange(ip, r.else_start, r.end)) =>
                (ip = r.jif /\ Falsy(Last(stack)))
          /\ InRange(ip, r.cond_start, r.end) => InRange(ip', r.cond_start, r.end + 1)

\* C3: for every compiled if, the then branch is entered exactly when the
\* condition value is truthy (not Int 0, Float 0 or Void), the else branch
\* exactly when it is not (nothing runs when there is no else), and a branch
\* that does not return continues at the first instruction after the if.
C3_OneBranchRuns == [][\A i \in 1..Len(dbg.ifs) : C3_IfStep(dbg.ifs[i])]_vars

\* the else branch of an if whose condition value was Void has run to the
\* end of the if
C3_ElseRanOnVoid ==
    /\ prog = PIfKind(Ret(None), TRUE) /\ Running
    /\ \E i \in 1..Len(dbg.ifs) :
          /\ dbg.ifs[i].has_else /\ ip = dbg.ifs[i].end
          /\ Last(hist).taken[dbg.ifs[i].jif] = 1
          /\ Last(hist).cnt[dbg.ifs[i].jump_end] = 0
          /\ Last(hist).cnt[dbg.ifs[i].end - 1] = 1

(***************************************************************************)
(* C4.                                                                     *)
(***************************************************************************)
\* r is the compiler's record of one For: init is [init_start, loop_start),
\* the condition with its JumpIfFalse [loop_start, body_start), the body
\* [body_start, upd_start), the update with its Pop [upd_start, back_jump)
C4_ForStep(r) ==
    LET h == Last(hist)
        truthy == h.cnt[r.jif] - h.taken[r.jif]
    IN /\ (r.has_cond /\ At(r.jif) /\ stack # <<>>) =>
             IF Falsy(Last(stack))
             THEN /\ ip' = r.end
                  /\ h.cnt[r.jif] < MaxCount =>
                        /\ h.cnt[r.back_jump] = truthy
                        /\ r.upd_start > r.body_start => h.cnt[r.body_start] = truthy
                        /\ r.has_update => h.cnt[r.back_jump - 1] = truthy
                        /\ r.loop_start > r.init_start =>
                              h.cnt[r.init_start] = h.taken[r.jif] + 1
             ELSE ip' = r.body_start
       /\ At(r.back_jump) => ip' = r.loop_start
       /\ (StepInside /\ InRange(ip, r.init_start, r.end) /\ ~InRange(ip', r.init_start, r.end)) =>
             (r.has_cond /\ ip = r.jif /\ ip' = r.end)

\* C4: for every compiled for, init runs once per entry of the loop; a truthy
\* condition continues at the body and the back jump at the condition; the
\* loop is left only by the condition evaluating falsy, at the instruction
\* after the loop, and then body and update have each run as often as the
\* condition evaluated truthy; a loop without condition is never left by a
\* step of its own activation.
C4_LoopCounts == [][\A i \in 1..Len(dbg.fors) : C4_ForStep(dbg.fors[i])]_vars

\* a loop with init, condition and update has been left after two rounds
C4_LeftAfterTwoRounds ==
    /\ Running
    /\ \E i \in 1..Len(dbg.fors) :
          LET r == dbg.fors[i]
          IN /\ r.has_cond /\ r.has_update /\ r.loop_start > r.init_start
             /\ ip = r.end
             /\ Last(hist).taken[r.jif] = 1
             /\ Last(hist).cnt[r.jif] = 3
             /\ Last(hist).cnt[r.back_jump] = 2

StageOrder == <<"lex", "parse", "analyze", "generate_ir", "write", "clang", "remove_file">>
Backend == {"generate_ir", "write", "clang", "remove_file"}
\* lex fails, parse fails, or analyze returns at least one diagnostic
Rejected == ~source.lex_ok \/ ~source.parse_ok \/ analyze(source.program) # <<>>

\* C8: compile() calls its stages in the order lex, parse, analyze,
\* generate_ir, write, clang; when lex or parse fails or analyze returns a
\* diagnostic, it calls no backend stage, writes no .ll file and returns Err,
\* and the message for semantic errors has a line for every diagnostic that
\* analyze returned.
C8_StagesInOrderAndGated ==
    /\ calls = SubSeq(StageOrder, 1, Len(calls))
    /\ Rejected =>
          /\ \A i \in 1..Len(calls) : calls[i] \notin Backend
          /\ ~ll_file
          /\ stage = "done" => outcome.kind = "Err"
    /\ (stage = "done" /\ source.lex_ok /\ source.parse_ok) =>
          \A i \in 1..Len(analyze(source.program)) :
              \E j \in 1..Len(outcome.lines) :
                  outcome.lines[j] = to_string(analyze(source.program)[i])

\* compile() has returned the report of several diagnostics
C8_ReportedSeveral ==
    /\ stage = "done" /\ outcome.kind = "Err" /\ outcome.from = "analyze"
    /\ Len(diags) >= 2 /\ Len(outcome.lines) = Len(diags) + 1
    /\ calls = <<"lex", "parse", "analyze">>

(***************************************************************************)
(* C9, C10.                                                                *)
(***************************************************************************)
\* C9: a call of a declared extern function whose arguments match its fixed
\* parameter types, followed by any number of extra arguments when the extern
\* is variadic, yields no diagnostic from analyze.
C9_MatchingExternCallAccepted ==
    (prog = PExtern(1) \/ \E n \in 1..MaxLit : prog = PVariadic(n)) => diags = <<>>

\* C10: a call of a declared function or fixed-arity extern with an argument
\* count other than the declared one makes analyze report
\* WrongArgumentCount(name, declared, actual) exactly once for that call.
C10_WrongArityReportedOnce ==
    /\ \A got \in Lits \ {2} :
          prog = PArity(got) => Count(diags, WrongArgumentCount("add", 2, got)) = 1
    /\ \A got \in Lits \ {1} :
          prog = PExtern(got) => Count(diags, WrongArgumentCount("foo", 1, got)) = 1

(***************************************************************************)
(* The analyzer, under SpecAnalyze.  The first call of a behaviour works   *)
(* on a new analyzer whichever of the two it is: FirstRun is that analyzer *)
(* as the call left it.                                                    *)
(***************************************************************************)
Range(s) == {s[i] : i \in 1..Len(s)}
Analyzed == reports # <<>>
FirstRun == reports[1].final
\* the analyzer as it stood at a log record, as far as check_expr reads it
AnalyzerAt(entry) ==
    [functions |-> FirstRun.functions, scopes |-> entry.scopes, errors |-> <<>>, log |-> <<>>]

\* the errors a check of the first n arguments of a call against the first n
\* declared parameter types pushes
ArgErrors(entry, n) ==
    check_args(AnalyzerAt(entry), SubSeq(entry.args, 1, n),
               SubSeq(FirstRun.functions[entry.name].params, 1, n), 0).errors

WrongCountCall(entry) ==
    /\ entry.k = "call"
    /\ entry.name \in DOMAIN FirstRun.functions
    /\ Len(entry.args) # Len(FirstRun.functions[entry.name].params)

\* C11: a call with the wrong number of arguments reports WrongArgumentCount
\* and also every error that checking its arguments against as many declared
\* parameter types as exist reports.
C11_ArgumentsCheckedAfterWrongCount ==
    Analyzed =>
        \A i \in 1..Len(FirstRun.log) :
            LET entry == FirstRun.log[i]
            IN WrongCountCall(entry) =>
                 LET params == FirstRun.functions[entry.name].params
                 IN /\ WrongArgumentCount(entry.name, Len(params), Len(entry.args))
                           \in Range(entry.added)
                    /\ Range(ArgErrors(entry, Min(Len(entry.args), Len(params))))
                           \subseteq Range(entry.added)

(***************************************************************************)
(* The program text: the names an expression or statement uses, one entry  *)
(* per occurrence (the target of an assignment is a use), and the names a  *)
(* program declares as a variable or a parameter.                          *)
(***************************************************************************)
RECURSIVE NamesUsed(_)
RECURSIVE NamesUsedInAll(_)
NamesUsedInAll(exprs) ==
    IF exprs = <<>> THEN <<>>
    ELSE NamesUsed(Head(exprs)) \o NamesUsedInAll(Tail(exprs))
NamesUsed(expr) ==
    CASE expr.k = "None" -> <<>>
      [] expr.k = "Literal" -> <<>>
      [] expr.k = "Identifier" -> <<expr.name>>
      [] expr.k = "Binary" -> NamesUsed(expr.left) \o NamesUsed(expr.right)
      [] expr.k = "Call" -> NamesUsedInAll(expr.args)

RECURSIVE StmtUsed(_)
RECURSIVE StmtsUsed(_)
StmtsUsed(stmts) ==
    IF stmts = <<>> THEN <<>> ELSE StmtUsed(Head(stmts)) \o StmtsUsed(Tail(stmts))
StmtUsed(stmt) ==
    CASE stmt.k = "None" -> <<>>
      [] stmt.k = "Declaration" -> NamesUsed(stmt.init)
      [] stmt.k = "Assignment" -> NamesUsed(stmt.expr) \o <<stmt.name>>
      [] stmt.k = "Return" -> NamesUsed(stmt.expr)
      [] stmt.k = "Block" -> StmtsUsed(stmt.stmts)
      [] stmt.k = "If" ->
           NamesUsed(stmt.cond) \o StmtUsed(stmt.then) \o StmtUsed(stmt.else_)
      [] stmt.k = "For" ->
           StmtUsed(stmt.init) \o NamesUsed(stmt.cond) \o NamesUsed(stmt.update)
               \o StmtUsed(stmt.body)
      [] stmt.k = "Expr" -> NamesUsed(stmt.expr)

RECURSIVE StmtDeclared(_)
StmtDeclared(stmt) ==
    CASE stmt.k = "Declaration" -> {stmt.name}
      [] stmt.k = "Block" -> UNION {StmtDeclared(stmt.stmts[i]) : i \in 1..Len(stmt.stmts)}
      [] stmt.k = "If" -> StmtDeclared(stmt.then) \cup StmtDeclared(stmt.else_)
      [] stmt.k = "For" -> StmtDeclared(stmt.init) \cup StmtDeclared(stmt.body)
      [] OTHER -> {}

RECURSIVE FunctionsUsed(_)
FunctionsUsed(fs) ==
    IF fs = <<>> THEN <<>> ELSE StmtUsed(Head(fs).body) \o FunctionsUsed(Tail(fs))
ProgramUsed(program) == FunctionsUsed(program.functions)
ProgramDeclared(program) ==
    UNION {StmtDeclared(program.functions[i].body)
               \cup {program.functions[i].params[j].name :
                        j \in 1..Len(program.functions[i].params)} :
           i \in 1..Len(program.functions)}

\* the binding of x in the innermost of the scopes that bind it
Binding(scopes, x) ==
    LET binders == {i \in 1..Len(scopes) : x \in DOMAIN scopes[i]}
    IN IF binders = {} THEN NoType
       ELSE scopes[CHOOSE i \in binders : \A j \in binders : j <= i][x]

\* C12: a lookup returns the binding of the innermost scope that has one; a
\* name the program declares nowhere is reported as UndefinedVariable once
\* per use, and the use has no type; a program whose only defect is the
\* return of one undeclared identifier yields that one diagnostic alone.
C12_EveryUnboundUseReportedOnce ==
    Analyzed =>
        /\ \A i \in 1..Len(FirstRun.log) :
              LET entry == FirstRun.log[i]
              IN entry.k \in {"use", "assign"} =>
                   /\ entry.ty = Binding(entry.scopes, entry.name)
                   /\ entry.ty = NoType => entry.added = <<UndefinedVariable(entry.name)>>
        /\ \A x \in Range(ProgramUsed(prog)) \ ProgramDeclared(prog) :
              Count(reports[1].errors, UndefinedVariable(x)) = Count(ProgramUsed(prog), x)
        /\ prog = PUndefRet => reports[1].errors = <<UndefinedVariable("x")>>

\* the names of the declarations of a statement, in program order
RECURSIVE DeclsIn(_)
RECURSIVE DeclsInAll(_)
DeclsInAll(stmts) ==
    IF stmts = <<>> THEN <<>> ELSE DeclsIn(Head(stmts)) \o DeclsInAll(Tail(stmts))
DeclsIn(stmt) ==
    CASE stmt.k = "Declaration" -> <<stmt.name>>
      [] stmt.k = "Block" -> DeclsInAll(stmt.stmts)
      [] stmt.k = "If" -> DeclsIn(stmt.then) \o DeclsIn(stmt.else_)
      [] stmt.k = "For" -> DeclsIn(stmt.init) \o DeclsIn(stmt.body)
      [] OTHER -> <<>>
RECURSIVE DeclsOf(_)
DeclsOf(fs) == IF fs = <<>> THEN <<>> ELSE DeclsIn(Head(fs).body) \o DeclsOf(Tail(fs))

RECURSIVE Only(_, _)
\* the records of kind k of a log, in order
Only(log, k) ==
    IF log = <<>> THEN <<>>
    ELSE (IF Head(log).k = k THEN <<Head(log)>> ELSE <<>>) \o Only(Tail(log), k)

DeclLog == Only(FirstRun.log, "decl")

\* C13: every declaration of the program is checked; it adds
\* DuplicateVariable(name) exactly if the innermost scope binds name at
\* that point, and then leaves every binding as it was; otherwise, a
\* binding of name in an outer scope or not, it adds no DuplicateVariable
\* and binds name to the declared type in the innermost scope.
C13_DuplicateIffBoundInnermost ==
    Analyzed =>
        /\ [i \in 1..Len(DeclLog) |-> DeclLog[i].name] = DeclsOf(prog.functions)
        /\ \A i \in 1..Len(DeclLog) :
              LET entry == DeclLog[i]
                  depth == Len(entry.scopes)
              IN IF entry.name \in DOMAIN entry.scopes[depth]
                 THEN /\ entry.added = <<DuplicateVariable(entry.name)>>
                      /\ entry.after = entry.scopes
                 ELSE /\ DuplicateVariable(entry.name) \notin Range(entry.added)
                      /\ entry.after =
                             [entry.scopes EXCEPT ![depth] =
                                 [x \in DOMAIN @ \cup {entry.name} |->
                                     IF x = entry.name THEN entry.ty ELSE @[x]]]

\* a for body that shadows the loop variable with another type and declares
\* it once more: one diagnostic for the second, none for the first
C13_ShadowedThenDuplicated ==
    /\ Analyzed
    /\ prog = PForShadow("Int", "Float")
    /\ Count(reports[1].errors, DuplicateVariable("i")) = 1
    /\ \E i \in 1..Len(DeclLog) :
          /\ DeclLog[i].added = <<DuplicateVariable("i")>>
          /\ Binding(DeclLog[i].after, "i") = "Float"
          /\ Binding(Front(DeclLog[i].after), "i") = "Int"

\* the signature of the first function of the program named f
FirstSignature(f) ==
    [ret |-> FunctionNamed(f).return_ty,
     params |-> [i \in 1..Len(FunctionNamed(f).params) |-> FunctionNamed(f).params[i].ty]]

FnLog == Only(FirstRun.log, "fn")
CallLog == Only(FirstRun.log, "call")

\* C14: collection goes through the functions in order and pushes one
\* DuplicateVariable for each whose name an earlier function has; the table
\* holds the signature of the first function of each name; every call of a
\* defined name that the analyzer checks, before or after the definition,
\* has the first definition's return type and is checked for count and
\* argument types against the first definition's parameter types.
C14_FirstDefinitionWins ==
    Analyzed =>
        /\ Len(FnLog) = Len(prog.functions)
        /\ \A i \in 1..Len(FnLog) :
              /\ FnLog[i].name = prog.functions[i].name
              /\ FnLog[i].added =
                    IF \E j \in 1..(i - 1) : prog.functions[j].name = FnLog[i].name
                    THEN <<DuplicateVariable(FnLog[i].name)>>
                    ELSE <<>>
        /\ DOMAIN FirstRun.functions = {prog.functions[i].name : i \in 1..Len(prog.functions)}
        /\ \A f \in DOMAIN FirstRun.functions : FirstRun.functions[f] = FirstSignature(f)
        /\ \A i \in 1..Len(CallLog) :
              LET entry == CallLog[i]
              IN IsDefined(entry.name) =>
                   LET sig == FirstSignature(entry.name)
                   IN /\ entry.ty = sig.ret
                      /\ entry.added =
                            IF Len(entry.args) # Len(sig.params)
                            THEN <<WrongArgumentCount(entry.name, Len(sig.params), Len(entry.args))>>
                            ELSE check_args(AnalyzerAt(entry), entry.args, sig.params, 0).errors

\* main calls f(1) before the two definitions of f, the first of which
\* takes two Floats: the call is counted against that one
C14_CalledBeforeTwoDefinitions ==
    /\ Analyzed
    /\ prog = PDupFn(<<F2, F1>>, CallE("f", <<Lit(1)>>), 0)
    /\ reports[1].errors = <<DuplicateVariable("f"), WrongArgumentCount("f", 2, 1)>>

\* the conditions of the ifs and fors of a statement, in program order
RECURSIVE CondsIn(_)
RECURSIVE CondsInAll(_)
CondsInAll(stmts) ==
    IF stmts = <<>> THEN <<>> ELSE CondsIn(Head(stmts)) \o CondsInAll(Tail(stmts))
CondsIn(stmt) ==
    CASE stmt.k = "Block" -> CondsInAll(stmt.stmts)
      [] stmt.k = "If" -> <<stmt.cond>> \o CondsIn(stmt.then) \o CondsIn(stmt.else_)
      [] stmt.k = "For" ->
           CondsIn(stmt.init) \o (IF IsSome(stmt.cond) THEN <<stmt.cond>> ELSE <<>>)
               \o CondsIn(stmt.body)
      [] OTHER -> <<>>
RECURSIVE CondsOf(_)
CondsOf(fs) == IF fs = <<>> THEN <<>> ELSE CondsIn(Head(fs).body) \o CondsOf(Tail(fs))

RECURSIVE OnlyConds(_)
OnlyConds(log) ==
    IF log = <<>> THEN <<>>
    ELSE (IF Head(log).k \in {"if", "for"} THEN <<Head(log)>> ELSE <<>>) \o OnlyConds(Tail(log))
CondLog == OnlyConds(FirstRun.log)

\* C15: the conditions the analyzer checks are the conditions of the ifs
\* and fors of the program, none for a for without one; each adds the
\* condition TypeMismatch exactly if its type is not Int, and the report
\* holds no other; a literal condition has its literal's type, and a
\* comparison of two operands of one known type has type Int and adds none.
C15_ConditionMismatchIffNotInt ==
    Analyzed =>
        /\ [i \in 1..Len(CondLog) |-> CondLog[i].cond] = CondsOf(prog.functions)
        /\ \A i \in 1..Len(CondLog) :
              /\ CondLog[i].added = IF CondLog[i].ty # "Int" THEN <<CondMismatch>> ELSE <<>>
              /\ CondLog[i].cond.k = "Literal" => CondLog[i].ty = CondLog[i].cond.lit.t
        /\ Count(reports[1].errors, CondMismatch)
              = Cardinality({i \in 1..Len(CondLog) : CondLog[i].ty # "Int"})
        /\ \A i \in 2..Len(FirstRun.log) :
              LET entry == FirstRun.log[i]
                  operator == FirstRun.log[i - 1]
              IN (entry.k \in {"if", "for"} /\ entry.cond.k = "Binary") =>
                   /\ operator.k = "bin" /\ operator.bop = entry.cond.bop
                   /\ (operator.bop \in CmpOps /\ operator.lty = operator.rty
                          /\ operator.lty # NoType) =>
                        (entry.ty = "Int" /\ entry.added = <<>>)

\* a for whose condition compares two Floats is accepted; an if on a Float
\* alone is not
C15_FloatComparisonAccepted ==
    /\ Analyzed
    /\ prog = PCondFor(Bin(FLit(3, 2), "LessThan", FLit(3, 2)), TRUE)
    /\ reports[1].errors = <<>>
    /\ Len(CondLog) = 1

\* the function whose body the analyzer was in at log record i: the one of
\* the last "enter" record before it
EnclosingReturnType(i) ==
    FirstRun.log[CHOOSE j \in 1..(i - 1) :
                    /\ FirstRun.log[j].k = "enter"
                    /\ \A m \in (j + 1)..(i - 1) : FirstRun.log[m].k # "enter"].ty

\* C16: a program with a return statement whose expression has a known type
\* other than the declared return type of its function gets at least one
\* TypeMismatch or ReturnTypeMismatch.
C16_IllTypedReturnReported ==
    Analyzed =>
        \A i \in 1..Len(FirstRun.log) :
            (/\ FirstRun.log[i].k = "ret"
             /\ FirstRun.log[i].ty # NoType
             /\ FirstRun.log[i].ty # EnclosingReturnType(i)) =>
                \E j \in 1..Len(reports[1].errors) :
                    reports[1].errors[j].e \in {"TypeMismatch", "ReturnTypeMismatch"}

\* C17: two calls of the free function analyze on the same program return
\* the same diagnostics, and so do two calls of the method analyze of one
\* analyzer.
C17_SameDiagnosticsTwice ==
    \A i, j \in 1..Len(reports) :
        reports[i].by = reports[j].by => reports[i].errors = reports[j].errors

(***************************************************************************)
(* The VM, under Spec: faults and the start of run.                        *)
(***************************************************************************)
\* the instruction about to be executed lacks something it needs
LacksOperand ==
    /\ Fetching
    /\ \/ Op.op \in {"StoreVar", "JumpIfFalse", "Pop"} /\ stack = <<>>
       \/ Op.op = "BinaryOp" /\ Len(stack) < 2
LacksVariable ==
    /\ Fetching /\ Op.op = "LoadVar"
    /\ IF frames = <<>> THEN TRUE ELSE Op.name \notin DOMAIN Last(frames).locals
LacksFunction == Fetching /\ Op.op = "Call" /\ Op.name \notin DOMAIN functions

Faulted == status = "err" /\ result.kind = "Err" /\ result.msg # <<>>

MainEntry ==
    dbg.spans[CHOOSE i \in 1..Len(prog.functions) :
                 /\ prog.functions[i].name = "main"
                 /\ \A j \in (i + 1)..Len(prog.functions) :
                       prog.functions[j].name # "main"].entry

\* C19: the step that starts run either finds no main in the function
\* table, which is the case exactly if the program defines none, and then
\* returns Err("Function 'main' not found") with the operand stack, the
\* frame stack and the instruction pointer as they were and no instruction
\* executed; or it leaves exactly one frame, returning to the length of the
\* code, with no locals, and the instruction pointer at main's entry.
C19_RunStartsAtMainOrFails ==
    [][status = "new" =>
          IF IsDefined("main")
          THEN /\ status' = "running"
               /\ frames' = <<Frame(Len(code), EmptyMap)>>
               /\ ip' = MainEntry /\ ip' = functions["main"]
               /\ stack' = stack
          ELSE /\ "main" \notin DOMAIN functions
               /\ status' = "err"
               /\ result' = Err(<<"Function 'main' not found">>)
               /\ stack' = stack /\ frames' = frames /\ ip' = ip
               /\ hist' = <<>>]_vars

\* run of a program that defines only one() has returned the error, the VM
\* as VM::new left it
C19_NoMainReported ==
    /\ ~IsDefined("main")
    /\ status = "err"
    /\ result = Err(<<"Function 'main' not found">>)
    /\ stack = <<>> /\ frames = <<>> /\ ip = 0

(***************************************************************************)
(* parse, under SpecParse.                                                 *)
(***************************************************************************)
RECURSIVE OnlyItems(_, _)
\* what the items of kind k carry, in source order
OnlyItems(its, k) ==
    IF its = <<>> THEN <<>>
    ELSE (IF Head(its).k # k THEN <<>>
          ELSE IF k = "Include" THEN <<Head(its).header>>
          ELSE IF k = "Extern" THEN <<Head(its).ext>>
          ELSE <<Head(its).function>>) \o OnlyItems(Tail(its), k)
Explicit == OnlyItems(items, "Extern")
Included == Range(OnlyItems(items, "Include"))
\* the registry of the specification: stdio.h gives
\* extern int printf(string, ...); every other header gives nothing
Provided(header) ==
    IF header = "stdio.h"
    THEN {[return_ty |-> "Int", name |-> "printf", param_types |-> <<"String">>,
           is_variadic |-> TRUE]}
    ELSE {}
InjectedExterns ==
    SubSeq(parsed.extern_functions, Len(Explicit) + 1, Len(parsed.extern_functions))

\* C20: the extern_functions of the parsed Program begin with the explicit
\* externs, in their order and unchanged; what follows are declarations the
\* registry provides for an included header, each once if no explicit
\* extern has its name, however often the header is included, and not at
\* all if one has; headers the registry does not know add nothing.
C20_HeaderExpansionOncePerName ==
    parsed.done =>
        /\ Len(parsed.extern_functions) >= Len(Explicit)
        /\ SubSeq(parsed.extern_functions, 1, Len(Explicit)) = Explicit
        /\ Range(InjectedExterns) \subseteq UNION {Provided(h) : h \in Included}
        /\ \A h \in Included : \A d \in Provided(h) :
              Count(InjectedExterns, d)
                  = IF \E i \in 1..Len(Explicit) : Explicit[i].name = d.name THEN 0 ELSE 1
        /\ Included \subseteq {"math.h"} => InjectedExterns = <<>>

\* test_duplicate_includes: stdio.h included twice, printf declared once
C20_IncludedTwiceDeclaredOnce ==
    /\ parsed.done
    /\ OnlyItems(items, "Include") = <<"stdio.h", "stdio.h">>
    /\ Count(parsed.extern_functions, PrintfExt) = 1
    /\ Len(parsed.functions) = 1

SharedName(decls) ==
    \E i, j \in 1..Len(decls) : i # j /\ decls[i].name = decls[j].name

\* C21: two extern declarations of one name, or two function definitions
\* of one name, do not make parse fail: it returns the Program with both;
\* analyze then returns a diagnostic for the clash in each namespace, so a
\* Program that analyze accepts has no two externs and no two functions of
\* one name.
C21_NameClashIsDiagnosed ==
    /\ parsed.done =>
          /\ OnlyItems(items, "Function") = parsed.functions
          /\ SubSeq(parsed.extern_functions, 1, Len(Explicit)) = Explicit
    /\ reports # <<>> =>
          /\ SharedName(parsed.functions) =>
                \E i \in 1..Len(reports[1].errors) :
                    /\ reports[1].errors[i].e = "DuplicateVariable"
                    /\ reports[1].errors[i].name = "main"
          /\ SharedName(parsed.extern_functions) => reports[1].errors # <<>>
          /\ reports[1].errors = <<>> =>
                ~SharedName(parsed.extern_functions) /\ ~SharedName(parsed.functions)

(***************************************************************************)
(* parse on a token slice, under SpecSyntax.                               *)
(***************************************************************************)
RECURSIVE NodesOf(_)
RECURSIVE NodesOfAll(_)
RECURSIVE NodesOfStmt(_)
RECURSIVE NodesOfStmts(_)
\* the expression nodes of a tree, the expression itself included
NodesOfAll(exprs) ==
    IF exprs = <<>> THEN {} ELSE NodesOf(Head(exprs)) \cup NodesOfAll(Tail(exprs))
NodesOf(expr) ==
    {expr} \cup
    CASE expr.k = "Binary" -> NodesOf(expr.left) \cup NodesOf(expr.right)
      [] expr.k = "Call" -> NodesOfAll(expr.args)
      [] expr.k = "Assignment" -> NodesOf(expr.value)
      [] OTHER -> {}
NodesOfStmts(stmts) ==
    IF stmts = <<>> THEN {} ELSE NodesOfStmt(Head(stmts)) \cup NodesOfStmts(Tail(stmts))
NodesOfStmt(stmt) ==
    CASE stmt.k = "None" -> {}
      [] stmt.k = "Declaration" -> NodesOfStmt(stmt.init)
      [] stmt.k = "Return" -> NodesOfStmt(stmt.expr)
      [] stmt.k = "Block" -> NodesOfStmts(stmt.stmts)
      [] stmt.k = "If" ->
           NodesOf(stmt.cond) \cup NodesOfStmt(stmt.then) \cup NodesOfStmt(stmt.else_)
      [] stmt.k = "For" ->
           NodesOfStmt(stmt.init) \cup NodesOfStmt(stmt.cond) \cup NodesOfStmt(stmt.update)
               \cup NodesOfStmt(stmt.body)
      [] stmt.k = "Expr" -> NodesOf(stmt.expr)
      [] OTHER -> NodesOf(stmt)
TreeNodes ==
    UNION {NodesOfStmt(tree.program.functions[i].body) :
               i \in 1..Len(tree.program.functions)}

IsComparison(expr) == expr.k = "Binary" /\ expr.bop \in CmpOps
InParentheses(expr) == "paren" \in DOMAIN expr
IsOperandToken(t) == t.k \in {"Identifier", "IntLiteral", "FloatLiteral", "StringLiteral"}
IsComparisonToken(t) == t.k \in CmpOps
\* x op y op with x and y single tokens: a comparison followed by a
\* comparison operator
Chained(toks) ==
    \E i \in 1..(Len(toks) - 3) :
        /\ IsOperandToken(toks[i]) /\ IsComparisonToken(toks[i + 1])
        /\ IsOperandToken(toks[i + 2]) /\ IsComparisonToken(toks[i + 3])

RECURSIVE WholeItems(_)
\* toks is a sequence of top-level items and nothing else: it is empty, or
\* some prefix of it is one item to its last token and the rest is again
\* such a sequence
WholeItems(toks) ==
    \/ toks = <<>>
    \/ \E n \in 1..Len(toks) :
          LET r == parse_top_level(SubSeq(toks, 1, n))
          IN /\ r.ok
             /\ r.rest = <<>>
             /\ WholeItems(SubSeq(toks, n + 1, Len(toks)))

SpanIndices(s) == s.entry..(s.end - 1)
IsJumpAt(i) == code[i + 1].op \in {"Jump", "JumpIfFalse"}
\* the span of the function the top activation runs
ActiveSpans ==
    {dbg.spans[i] : i \in {j \in 1..Len(dbg.spans) :
                              /\ dbg.spans[j].name = Last(hist).name
                              /\ dbg.spans[j].entry = functions[Last(hist).name]}}

\* C25: every Jump and JumpIfFalse compiled for a function targets an
\* instruction of that function's span, and while run executes a function
\* the instruction pointer stays inside that function's span: control
\* leaves a function only through Call and Return.
C25_ControlStaysInsideFunction ==
    /\ \A n \in 1..Len(dbg.spans) : \A i \in SpanIndices(dbg.spans[n]) :
          IsJumpAt(i) => code[i + 1].target \in SpanIndices(dbg.spans[n])
    /\ Running /\ hist # <<>> =>
          \E s \in ActiveSpans : ip \in SpanIndices(s)

(***************************************************************************)
(* C26.  The places of the expressions and statements of a function in the *)
(* code are computed from the AST alone: the number of instructions each   *)
(* construct is compiled to, laid out from the end of the prologue.  A     *)
(* mark [start, end, depth, gain] says: the construct's first instruction  *)
(* is at start, the instruction after its last is at end, depth operands   *)
(* of enclosing expressions are pending when it starts, and it leaves gain *)
(* more operands when it ends.                                             *)
(***************************************************************************)
RECURSIVE ExprLen(_)
ExprLen(e) ==
    CASE e.k = "Binary" -> ExprLen(e.left) + ExprLen(e.right) + 1
      [] e.k = "Call" ->
           LET RECURSIVE Sum(_)
               Sum(args) == IF args = <<>> THEN 0 ELSE ExprLen(Head(args)) + Sum(Tail(args))
           IN Sum(e.args) + 1
      [] OTHER -> 1

RECURSIVE StmtLen(_)
StmtLen(st) ==
    LET RECURSIVE Sum(_)
        Sum(ss) == IF ss = <<>> THEN 0 ELSE StmtLen(Head(ss)) + Sum(Tail(ss))
        Opt(x, extra) == IF IsSome(x) THEN ExprLen(x) + extra ELSE 0
    IN CASE st.k = "Declaration" -> Opt(st.init, 1)
         [] st.k = "Assignment" -> ExprLen(st.expr) + 1
         [] st.k = "Return" -> IF IsSome(st.expr) THEN ExprLen(st.expr) + 1 ELSE 2
         [] st.k = "Block" -> Sum(st.stmts)
         [] st.k = "If" ->
              ExprLen(st.cond) + 1 + StmtLen(st.then) + 1
                  + (IF IsSome(st.else_) THEN StmtLen(st.else_) ELSE 0)
         [] st.k = "For" ->
              (IF IsSome(st.init) THEN StmtLen(st.init) ELSE 0)
                  + Opt(st.cond, 1) + StmtLen(st.body) + Opt(st.update, 1) + 1
         [] st.k = "Expr" -> ExprLen(st.expr) + 1

Mark(start, len, depth, gain) ==
    [start |-> start, end |-> start + len, depth |-> depth, gain |-> gain]

RECURSIVE ExprMarks(_, _, _)
ExprMarks(e, at, depth) ==
    {Mark(at, ExprLen(e), depth, 1)} \cup
    CASE e.k = "Binary" ->
           ExprMarks(e.left, at, depth)
               \cup ExprMarks(e.right, at + ExprLen(e.left), depth + 1)
      [] e.k = "Call" ->
           LET RECURSIVE ArgMarks(_, _, _)
               ArgMarks(args, a, d) ==
                   IF args = <<>> THEN {}
                   ELSE ExprMarks(Head(args), a, d)
                            \cup ArgMarks(Tail(args), a + ExprLen(Head(args)), d + 1)
           IN ArgMarks(e.args, at, depth)
      [] OTHER -> {}

RECURSIVE StmtMarks(_, _)
StmtMarks(st, at) ==
    LET RECURSIVE All(_, _)
        All(ss, a) ==
            IF ss = <<>> THEN {}
            ELSE StmtMarks(Head(ss), a) \cup All(Tail(ss), a + StmtLen(Head(ss)))
        OptE(x, a) == IF IsSome(x) THEN ExprMarks(x, a, 0) ELSE {}
        OptS(x, a) == IF IsSome(x) THEN StmtMarks(x, a) ELSE {}
        OptLen(x, extra) == IF IsSome(x) THEN ExprLen(x) + extra ELSE 0
        OptStmtLen(x) == IF IsSome(x) THEN StmtLen(x) ELSE 0
    IN (IF st.k = "Return" THEN {} ELSE {Mark(at, StmtLen(st), 0, 0)}) \cup
       CASE st.k = "Declaration" -> OptE(st.init, at)
         [] st.k = "Assignment" -> ExprMarks(st.expr, at, 0)
         [] st.k = "Return" -> OptE(st.expr, at)
         [] st.k = "Block" -> All(st.stmts, at)
         [] st.k = "If" ->
              ExprMarks(st.cond, at, 0)
                  \cup StmtMarks(st.then, at + ExprLen(st.cond) + 1)
                  \cup OptS(st.else_, at + ExprLen(st.cond) + 1 + StmtLen(st.then) + 1)
         [] st.k = "For" ->
              LET cond_at == at + OptStmtLen(st.init)
                  body_at == cond_at + OptLen(st.cond, 1)
                  upd_at == body_at + StmtLen(st.body)
              IN OptS(st.init, at) \cup OptE(st.cond, cond_at)
                     \cup StmtMarks(st.body, body_at) \cup OptE(st.update, upd_at)
         [] st.k = "Expr" -> ExprMarks(st.expr, at, 0)

\* the functions of the program the top activation may be running
ActiveFunctions ==
    {n \in 1..Len(dbg.spans) :
        /\ dbg.spans[n].name = Last(hist).name
        /\ dbg.spans[n].entry = functions[Last(hist).name]}
FunctionMarks(n) ==
    StmtMarks(prog.functions[n].body, dbg.spans[n].entry + Len(prog.functions[n].params))
\* the operand stack depth of the top activation once its prologue has
\* stored the arguments
Floor(n) == Len(Last(hist).stack) - Len(prog.functions[n].params)

\* C26: in the activation on top, an expression that starts with d operands
\* pending ends with d + 1 on the operand stack, and a statement that does
\* not return starts and ends with none pending: the depth is that of the
\* activation's start less its arguments.
C26_OperandStackBalanced ==
    Running /\ hist # <<>> =>
        \A n \in ActiveFunctions : \A m \in FunctionMarks(n) :
            /\ ip = m.start => Len(stack) = Floor(n) + m.depth
            /\ ip = m.end => Len(stack) = Floor(n) + m.depth + m.gain

\* C27: when analyze accepts the program, run never returns
\* Err("Undefined variable: ..."): every LoadVar finds its variable in the
\* frame on top.
C27_AcceptedReadsAreBound ==
    Accepted => ~(status = "err" /\ result.msg[1] = "Undefined variable: ")

(***************************************************************************)
(* C28.  What BinaryOp is to push, read off the operands: the order of two *)
(* numbers as exact rationals, the difference and the truncated quotient   *)
(* of two integers.                                                        *)
(***************************************************************************)
IsNaN(v) == v.t = "Float" /\ v.d = 0 /\ v.n = 0
\* -1, 0 or 1 as l is below, equal to or above r; neither is a NaN
Order(l, r) ==
    IF l.d = 0 \/ r.d = 0
    THEN Sign((IF l.d = 0 THEN l.n ELSE 0) - (IF r.d = 0 THEN r.n ELSE 0))
    ELSE Sign(l.n * r.d - r.n * l.d)
Holds(op, l, r) ==
    IF IsNaN(l) \/ IsNaN(r) THEN op = "NotEqual"
    ELSE CASE op = "Equal" -> Order(l, r) = 0
           [] op = "NotEqual" -> Order(l, r) # 0
           [] op = "LessThan" -> Order(l, r) < 0
           [] op = "GreaterThan" -> Order(l, r) > 0
           [] op = "LessEqual" -> Order(l, r) <= 0
           [] op = "GreaterEqual" -> Order(l, r) >= 0
\* the quotient q of l by r truncated toward zero: q * r lies between 0 and
\* l, less than |r| away from l
IsTruncatedQuotient(q, l, r) ==
    /\ r # 0
    /\ Abs(q * r) <= Abs(l) /\ Abs(l - q * r) < Abs(r)
    /\ (q = 0 \/ Sign(q) = Sign(l) * Sign(r))
Pushes(v, left, op, right) ==
    IF left.t = "Void" \/ right.t = "Void" THEN v = Void
    ELSE IF op \in CmpOps THEN v = IntV(IF Holds(op, left, right) THEN 1 ELSE 0)
    ELSE IF left.t = "Int" /\ right.t = "Int" /\ op = "Minus" THEN v = IntV(left.n - right.n)
    ELSE IF left.t = "Int" /\ right.t = "Int" /\ op = "Divide"
    THEN v.t = "Int" /\ IsTruncatedQuotient(v.n, left.n, right.n)
    ELSE TRUE

C28_Step ==
    Fetching /\ Op.op = "BinaryOp" /\ Len(stack) >= 2 =>
        /\ Len(stack') = Len(stack) - 1
        /\ SubSeq(stack', 1, Len(stack) - 2) = SubSeq(stack, 1, Len(stack) - 2)
        /\ Pushes(Last(stack'), stack[Len(stack) - 1], Op.bop, Last(stack))
        /\ status' = status

\* C28: BinaryOp(op) on a stack ..., left, right leaves ..., op(left, right)
\* and run goes on: the difference left - right for Minus on two Ints, the
\* quotient truncated toward zero for Divide on two Ints, Int(1) or Int(0)
\* for a comparison of two numbers, Void when an operand is Void.
C28_BinaryOpPushesResult == [][C28_Step]_vars

(***************************************************************************)
(* C29.  The programs that declare a name, declare it again in a block, a  *)
(* for initializer or a for body, and return the name after that: main is  *)
(* `int v = x; <block or for>; return v;` and nothing between assigns the  *)
(* outer v.                                                                *)
(***************************************************************************)
ShadowingPrograms ==
    {PShadowRun(x, y) : x \in Lits, y \in Lits}
        \cup {PForInitShadow(x, y) : x \in Lits, y \in Lits}
        \cup {PForBodyShadow(x, y) : x \in Lits, y \in Lits}
OuterValue == LitValue(prog.functions[1].body.stmts[1].init.lit)

\* C29: when an accepted program declares v, declares v again in an inner
\* block or for, and reads v after the block or loop has ended, the read
\* yields the value of the outer v: main, which returns that read,
\* returns the outer value.
C29_OuterValueAfterShadowing ==
    Accepted /\ prog \in ShadowingPrograms /\ status = "ok" =>
        result = Ok(OuterValue)

(***************************************************************************)
(* C30.                                                                    *)
(***************************************************************************)
FrameErrors == {<<"No active stack frame">>, <<"Call stack underflow">>}
C30_Step ==
    /\ status = "new" /\ status' = "running" => Len(frames') = 1
    /\ Fetching =>
          /\ frames # <<>>
          /\ status' = "running" =>
                Len(frames') = Len(frames) + (CASE Op.op = "Call" -> 1
                                                [] Op.op = "Return" -> -1
                                                [] OTHER -> 0)
          /\ Op.op = "Return" =>
                /\ Len(frames') = Len(frames) - 1
                /\ IF Len(frames) = 1
                   THEN status' = "ok" /\ result' = Ok(PopOrVoid(stack))
                   ELSE status' = "running" /\ result' = result
    /\ result'.msg \notin FrameErrors

\* C30: run starts its loop with one frame; every Call that run goes on
\* after adds one frame, every Return removes one and no other instruction
\* changes the frames, so at every fetch there is a frame and the depth is
\* one plus the Calls less the Returns executed; a Return makes run return
\* Ok(top of the operand stack, or Void) when it removes the only frame and
\* lets run go on otherwise; run never returns "No active stack frame" or
\* "Call stack underflow".
C30_FrameDepthFollowsCallsAndReturns == [][C30_Step]_vars

\* main runs on with its one frame after a call it made has returned
C30_BackInSeedFrameAfterCall ==
    /\ Running /\ Len(frames) = 1
    /\ \E i \in 0..(Len(code) - 1) : code[i + 1].op = "Call" /\ Last(hist).cnt[i] >= 1

====
